---- MODULE Spec2Model ----
(***************************************************************************)
(* A model of the relab/hotstuff fork AeonSw4n/hotstuff:                   *)
(*   - crypto/cache.go: the LRU verification cache around a CryptoBase    *)
(*     primitive (sequential callers in Spec, concurrent callers in       *)
(*     SpecConc);                                                          *)
(*   - twins/network.go and twins/scenario.go: the partitioned twins      *)
(*     network (SpecNet, SpecScenario, SpecDrop, SpecBroadcast,           *)
(*     SpecTwinsFetch), its timeoutManager (SpecTimer), Network.run       *)
(*     (SpecRun) and checkCommits (SpecCommits);                          *)
(*   - leaderrotation/carousel.go: carousel.GetLeader (SpecCarousel, and  *)
(*     SpecAnySize for configurations of every size);                     *)
(*   - backend/config.go: Config.Connect and the delayed replicaConnected *)
(*     events (SpecBackend), the sends (SpecSend), qspec.FetchQF          *)
(*     (SpecFetchQF);                                                      *)
(*   - internal/orchestration/controller.go: stopReplicas (SpecStop) and  *)
(*     createReplicas (SpecCreate).                                        *)
(***************************************************************************)
EXTENDS Integers, Sequences, FiniteSets, TLC

\* ------------------------------------------------------------------ bounds
NumMsgs == 2
MaxCap == 2
NumIds == 2
NumThreads == 2
NumConcMsgs == 1
NumNodes == 3
MaxView == 2
MaxTicks == 11
NumCorrect == 2
NumBlocks == 2
MaxExec == 4
ConfigLen == 7
MaxChain == 3
MaxSends == 2
NumBackend == 3
MaxEvents == 3
MaxCalls == 2
NumFetchIds == 3
NumFetchBlocks == 2
NumHashes == 2
NumStopIds == 3
MaxReplicas == 6
MaxHosts == 3

Msgs == 1..NumMsgs
\* signature 0 is a forgery; signature s > 0 is the signature of message s
Sigs == 0..NumMsgs
Ids == 1..NumIds
Batches == UNION {[D -> Msgs] : D \in (SUBSET Ids) \ {{}}}
Capacities == 0..MaxCap
Threads == 1..NumThreads
\* what the concurrent callers sign and verify
ConcMsgs == 1..NumConcMsgs
ConcSigs == 0..NumConcMsgs
\* every replica signs: the batches of the concurrent callers cover all ids
ConcBatches == [Ids -> ConcMsgs]

VARIABLES
  capacity,     \* cache.capacity
  entries,      \* the key set of cache.entries (map[string]*list.Element)
  accessOrder,  \* cache.accessOrder, front (most recently used) first
  panicked,     \* a call has panicked: the process is gone
  last,         \* the call that has just completed
  signedLive,   \* history: keys inserted by Sign and resident ever since
  clean,        \* history: so far only insertions of pairwise distinct keys
  inserted,     \* history: the keys inserted so far, oldest first, while clean
  mut,          \* cache.mut: the goroutine holding it, 0 when unlocked
  pc,           \* where each goroutine is in its call
  task,         \* each goroutine's call: its kind, key and the primitive's answer
  verifyCalls,  \* history: impl.Verify calls for TrackedPair since its key was
                \* last evicted (2 stands for two or more)
  views,        \* Network.views: per view its leader and partitions
  dropTypes,    \* Network.dropTypes
  syncView,     \* per node (by NetworkID): its synchronizer's View()
  effectiveView,    \* per node: node.effectiveView
  pendingMessages,\* Network.pendingMessages
  countdown,    \* per node: timeoutManager.countdown
  tickNo,       \* the tick events the nodes have handled so far
  vcePending,   \* per node: a ViewChangeEvent is in its event loop
  sinceChange,  \* history, per node: tick events since it last observed a
                \* ViewChangeEvent (since startup when it has observed none)
  observed,     \* history, per node: it has observed a ViewChangeEvent
  lastEmit,     \* history, per node: the TimeoutEvent its last tick event
                \* added to its event loop, NoEvent if none
  fired,        \* history, per node: it has emitted a TimeoutEvent
  executedBlocks,   \* per node: node.executedBlocks
  commitResult,     \* what checkCommits returned, NoResult before it ran
  proposers,        \* the proposers of the committed blocks, genesis excluded,
                    \* oldest first: the last one is the commit head's
  headParticipants, \* the participants of the commit head's quorum certificate
  leaderOut,        \* what carousel.GetLeader returned, NoLeader before a call
  configLen,        \* c.opts.Get().Configuration().Len()
  eventLoop,    \* per node: the events queued in its event loop
  phase,        \* where Network.run is: "start", "idle" between two ticks,
                \* "drain" inside the node loop of tick
  cur,          \* the node whose event loop tick is draining, 0 for none
  drained,      \* the nodes tick has drained in this tick
  nextCmd,      \* commandGenerator.nextCmd
  msgCount,     \* the messages handed to sendMessage so far
  sentThisTick, \* history: the messages sent since the last delivery
  sentInDrain,  \* history: the messages sent while an event loop was drained
  tickEvents,   \* history, per node: tick events it got in the current tick
  connected,    \* Config.connected
  connectPc,    \* where Config.Connect is: "new" before the call, "dialing"
                \* in mgr.NewConfiguration, "marked" after line 219, "done"
                \* or "failed" once it has returned
  cfgReplicas,  \* the keys of Config.replicas
  nodeOf,       \* the replicas whose Replica.node is not nil
  md,           \* per replica: the event whose metadata Replica.md holds, 0
                \* for the empty map
  eventQueue,   \* the event loop's queue
  waitingEvents,    \* the events DelayUntil(connected{}, ...) holds back
  evCount,      \* the replicaConnected events added so far
  handled,      \* history: the events passed to cfg.replicaConnected
  delays,       \* history: the events passed to DelayUntil
  connectedSeen,    \* history: a connected event has been processed
  sendLog,      \* history: the calls of Propose, Timeout, Vote and NewView
  inflight,     \* the messages gorums has been given and not yet delivered
  received,     \* history: the handler calls of the replicas' servers
  fetchIn,      \* the hash FetchQF is asked for, NoHash before a Fetch
  fetchReplies, \* the replies FetchQF is given, by node ID
  fetchOut,     \* what FetchQF returned, NoFetch before it ran
  blockStore,   \* per node: the hashes of the blocks its block chain holds locally
  fetched,     \* what configuration.Fetch returned, NoFetched before a call
  cast,     \* the last broadcast: its sender, message type and sub-configuration
  stopHashes,   \* res.GetHashes() of the StopReplica call, by replica ID
  stopErr,      \* the StopReplica call returned an error
  stopOut,      \* what stopReplicas returned, NoStop before it ran
  numReplicas,  \* Experiment.NumReplicas
  numHosts,     \* e.config.Size(), the number of hosts
  nodesToReplicas,  \* Experiment.nodesToReplicas
  nextID,       \* nextID of createReplicas
  requested,    \* the hosts for which the per-node function of CreateReplica has run
  skipped       \* the hosts for which that function returned nil

cacheVars == <<capacity, entries, accessOrder, panicked>>
histVars == <<last, signedLive, clean, inserted>>
concVars == <<mut, pc, task, verifyCalls>>
netVars == <<views, dropTypes, syncView, effectiveView, pendingMessages>>
timerVars == <<countdown, tickNo, vcePending, sinceChange, observed, lastEmit, fired>>
commitVars == <<executedBlocks, commitResult>>
carVars == <<proposers, headParticipants, leaderOut, configLen>>
runVars == <<eventLoop, phase, cur, drained, nextCmd, msgCount, sentThisTick,
             sentInDrain, tickEvents>>
simVars == <<timerVars, commitVars, carVars, runVars>>
backendVars == <<connected, connectPc, cfgReplicas, nodeOf, md, eventQueue,
                 waitingEvents, evCount, handled, delays, connectedSeen,
                 sendLog, inflight, received>>
sendVars == <<sendLog, inflight, received>>
fetchVars == <<fetchIn, fetchReplies, fetchOut>>
storeVars == <<blockStore, fetched>>
castVars == <<cast>>
ctlVars == <<stopHashes, stopErr, stopOut, numReplicas, numHosts, nodesToReplicas, nextID, requested, skipped>>
extVars == <<backendVars, fetchVars, storeVars, castVars, ctlVars>>
vars == <<capacity, entries, accessOrder, panicked, last, signedLive, clean,
          inserted, mut, pc, task, verifyCalls, views, dropTypes, syncView,
          effectiveView, pendingMessages, countdown, tickNo, vcePending,
          sinceChange, observed, lastEmit, fired, executedBlocks,
          commitResult, proposers, headParticipants, leaderOut, configLen, eventLoop,
          phase, cur, drained, nextCmd, msgCount, sentThisTick, sentInDrain,
          tickEvents, connected, connectPc, cfgReplicas, nodeOf, md,
          eventQueue, waitingEvents, evCount, handled, delays, connectedSeen,
          sendLog, inflight, received,
          fetchIn, fetchReplies, fetchOut,
          blockStore, fetched,
          cast,
          stopHashes, stopErr, stopOut, numReplicas, numHosts, nodesToReplicas, nextID, requested, skipped>>

\* ------------------------------------------------------- the primitive
\* consensus.CryptoBase is an interface; the cache is checked over this
\* deterministic primitive: signature s verifies message m iff s = m # 0, and
\* an aggregate s verifies a batch iff every signer's message is s.
ImplSign(m) == m

ImplVerify(sig, m) == sig # 0 /\ sig = m

ImplBatchVerify(sig, batch) == sig # 0 /\ \A id \in DOMAIN batch : batch[id] = sig

ToBytes(sig) == <<sig>>

MsgBytes(m) == <<m>>

\* ------------------------------------------------------------ hashing
\* sha256 as a collision-free digest of its input; the zero value of a
\* [32]byte array is the digest of nothing.
Sha256(bytes) == [kind |-> "sha256", of |-> bytes]

ZeroHash == [kind |-> "zero", of |-> <<>>]

RECURSIVE SortedIds(_)
SortedIds(S) ==
  IF S = {} THEN <<>>
  ELSE LET m == CHOOSE x \in S : \A y \in S : x <= y
       IN <<m>> \o SortedIds(S \ {m})

RECURSIVE ConcatMsgs(_, _)
ConcatMsgs(batch, ids) ==
  IF ids = <<>> THEN <<>>
  ELSE MsgBytes(batch[Head(ids)]) \o ConcatMsgs(batch, Tail(ids))

\* hash.Hash.Sum(b) appends the digest to b and returns the new slice
HasherSum(b, written) == <<b, Sha256(written)>>

\* a Verify key that leaves the message out
VerifyKeyNoMsg(sig, m) == [hash |-> ZeroHash, sig |-> ToBytes(sig)]

\* cache.go:89-92: sha256.Sum256(message) then the signature bytes
VerifyKey(sig, m) == [hash |-> Sha256(MsgBytes(m)), sig |-> ToBytes(sig)]

\* cache.go:109-117: the messages are written to the hasher in ascending id
\* order, but the slice hasher.Sum returns is dropped and `hash` keeps its
\* zero value.
BatchHash(batch) ==
  LET ids == SortedIds(DOMAIN batch)
      sum == HasherSum(ZeroHash, ConcatMsgs(batch, ids))
  IN ZeroHash

\* cache.go:119-121
BatchKey(sig, batch) == [hash |-> BatchHash(batch), sig |-> ToBytes(sig)]

\* ------------------------------------------------------------ the LRU
\* container/list
MoveToFront(order, key) == <<key>> \o SelectSeq(order, LAMBDA k : k # key)

PushFront(order, key) == <<key>> \o order

Back(order) == order[Len(order)]

RemoveBack(order) == SubSeq(order, 1, Len(order) - 1)

LRU(e, o, p) == [entries |-> e, order |-> o, panic |-> p]

\* an evict that lets the cache grow one key past its capacity
evictLate(cap, c) ==
  IF Cardinality(c.entries) <= cap THEN c
  ELSE IF c.order = <<>> THEN LRU(c.entries, c.order, TRUE)
  ELSE LRU(c.entries \ {Back(c.order)}, RemoveBack(c.order), FALSE)

\* cache.evict: Back() of an empty list is nil and Remove(nil) panics
evict(cap, c) ==
  IF Cardinality(c.entries) < cap THEN c
  ELSE IF c.order = <<>> THEN LRU(c.entries, c.order, TRUE)
  ELSE LRU(c.entries \ {Back(c.order)}, RemoveBack(c.order), FALSE)

\* an insert that does not look the key up before it adds it
insertNoLookup(cap, c, key) ==
  LET d == evict(cap, c)
  IN IF d.panic THEN d
     ELSE LRU(d.entries \cup {key}, PushFront(d.order, key), FALSE)

\* cache.insert
insert(cap, c, key) ==
  IF key \in c.entries THEN LRU(c.entries, MoveToFront(c.order, key), FALSE)
  ELSE LET d == evict(cap, c)
       IN IF d.panic THEN d
          ELSE LRU(d.entries \cup {key}, PushFront(d.order, key), FALSE)

\* a check that never finds its key
checkMiss(c, key) == [hit |-> FALSE, lru |-> c]

\* a check that does not promote the key it finds
checkNoPromote(c, key) == [hit |-> key \in c.entries, lru |-> c]

\* cache.check
check(c, key) ==
  IF key \in c.entries
  THEN [hit |-> TRUE, lru |-> LRU(c.entries, MoveToFront(c.order, key), FALSE)]
  ELSE [hit |-> FALSE, lru |-> c]

Cur == LRU(entries, accessOrder, FALSE)

\* ------------------------------------------------------------ history
Call(op, arg, key, hit, delegated, implAns, result, returned) ==
  [op |-> op, arg |-> arg, key |-> key, hit |-> hit, delegated |-> delegated,
   implAns |-> implAns, result |-> result, returned |-> returned]

NoKey == [hash |-> ZeroHash, sig |-> <<>>]

NoCall == Call("none", <<>>, NoKey, FALSE, FALSE, FALSE, FALSE, FALSE)

\* the call called cache.insert
Ins(l) ==
  \/ l.op = "Sign" /\ l.result
  \/ l.op \in {"Verify", "BatchVerify"} /\ ~l.hit /\ l.implAns

\* the histories after a call that looked `key` up (looked) or inserted it
\* (isInsert; bySign: on behalf of Sign(arg[2]) returning arg[1]), leaving the
\* cache as d
Hist(d, arg, key, looked, isInsert, bySign) ==
  /\ signedLive' =
       {r \in signedLive : r.key \notin entries \ d.entries}
         \cup (IF bySign /\ ~d.panic THEN {[arg |-> arg, key |-> key]} ELSE {})
  /\ LET ok == /\ clean
               /\ ~looked
               /\ isInsert => /\ \A i \in 1..Len(inserted) : inserted[i] # key
                               /\ ~d.panic
     IN /\ clean' = ok
        /\ inserted' = IF ~ok THEN <<>>
                       ELSE IF isInsert THEN Append(inserted, key) ELSE inserted

Store(d) ==
  /\ entries' = d.entries
  /\ accessOrder' = d.order
  /\ panicked' = d.panic
  /\ UNCHANGED <<capacity, concVars, netVars, simVars, extVars>>

\* ------------------------------------------------------------ the calls
\* a Sign key built from the raw message instead of its digest
SignKeyNoHash(sig, m) == [hash |-> [kind |-> "raw", of |-> MsgBytes(m)], sig |-> ToBytes(sig)]

\* cache.go:79-82
SignKey(sig, m) == [hash |-> Sha256(MsgBytes(m)), sig |-> ToBytes(sig)]

\* cache.Sign: always delegates; on success inserts the key
Sign(m, ok) ==
  /\ ~panicked
  /\ LET sig == ImplSign(m)
         key == SignKey(sig, m)
         d == IF ok THEN insert(capacity, Cur, key) ELSE Cur
     IN /\ Store(d)
        /\ last' = Call("Sign", <<sig, m>>, key, FALSE, TRUE, ok, ok, ~d.panic)
        /\ Hist(d, <<sig, m>>, key, FALSE, ok, ok)

\* a Verify that caches whatever the primitive answered
VerifyInsertAlways(sig, m) ==
  /\ ~panicked
  /\ LET key == VerifyKey(sig, m)
         c == check(Cur, key)
         ans == ImplVerify(sig, m)
         d == IF c.hit THEN c.lru ELSE insert(capacity, c.lru, key)
     IN /\ Store(d)
        /\ last' = Call("Verify", <<sig, m>>, key, c.hit, ~c.hit, ans,
                        c.hit \/ ans, ~d.panic)
        /\ Hist(d, <<sig, m>>, key, TRUE, FALSE, FALSE)

\* cache.Verify
Verify(sig, m) ==
  /\ ~panicked
  /\ LET key == VerifyKey(sig, m)
         c == check(Cur, key)
         ans == ImplVerify(sig, m)
         d == IF c.hit THEN c.lru
              ELSE IF ans THEN insert(capacity, c.lru, key) ELSE c.lru
     IN /\ Store(d)
        /\ last' = Call("Verify", <<sig, m>>, key, c.hit, ~c.hit, ans,
                        c.hit \/ ans, ~d.panic)
        /\ Hist(d, <<sig, m>>, key, TRUE, FALSE, FALSE)

\* cache.BatchVerify
BatchVerify(sig, batch) ==
  /\ ~panicked
  /\ LET key == BatchKey(sig, batch)
         c == check(Cur, key)
         ans == ImplBatchVerify(sig, batch)
         d == IF c.hit THEN c.lru
              ELSE IF ans THEN insert(capacity, c.lru, key) ELSE c.lru
     IN /\ Store(d)
        /\ last' = Call("BatchVerify", <<sig>>, key, c.hit, ~c.hit, ans,
                        c.hit \/ ans, ~d.panic)
        /\ Hist(d, <<sig>>, key, TRUE, FALSE, FALSE)

\* cache.Combine: delegated, never cached
Combine ==
  /\ ~panicked
  /\ last' = Call("Combine", <<>>, NoKey, FALSE, TRUE, FALSE, FALSE, TRUE)
  /\ UNCHANGED <<cacheVars, signedLive, clean, inserted, concVars, netVars, simVars, extVars>>

\* a goroutine's call: its kind, its key and what the primitive answers
Task(op, key, ans) == [op |-> op, key |-> key, ans |-> ans]

NoTask == Task("none", NoKey, FALSE)

\* the pair whose impl.Verify calls are counted: signature 1 of message 1,
\* which the primitive accepts
TrackedKey == VerifyKey(ImplSign(1), 1)

\* no twins network is running
NetIdle ==
  /\ views = <<>>
  /\ dropTypes = {}
  /\ syncView = <<>>
  /\ effectiveView = <<>>
  /\ pendingMessages = <<>>

\* no timeoutManager is running
TimerIdle ==
  /\ countdown = <<>>
  /\ tickNo = 0
  /\ vcePending = <<>>
  /\ sinceChange = <<>>
  /\ observed = <<>>
  /\ lastEmit = <<>>
  /\ fired = <<>>

NoResult == [ran |-> FALSE, safe |-> FALSE, commits |-> 0]

\* no scenario has executed a block
CommitIdle ==
  /\ executedBlocks = <<>>
  /\ commitResult = NoResult

NoLeader == [kind |-> "none", leader |-> 0, avail |-> 0, round |-> 0]

\* no carousel is asked for a leader
CarouselIdle ==
  /\ proposers = <<>>
  /\ headParticipants = {}
  /\ leaderOut = NoLeader
  /\ configLen = 0

\* no Network.run is in progress
RunIdle ==
  /\ eventLoop = <<>>
  /\ phase = "none"
  /\ cur = 0
  /\ drained = {}
  /\ nextCmd = 0
  /\ msgCount = 0
  /\ sentThisTick = {}
  /\ sentInDrain = {}
  /\ tickEvents = <<>>

SimIdle == TimerIdle /\ CommitIdle /\ CarouselIdle /\ RunIdle

\* no backend configuration exists
BackendIdle ==
  /\ connected = FALSE
  /\ connectPc = "none"
  /\ cfgReplicas = {}
  /\ nodeOf = {}
  /\ md = <<>>
  /\ eventQueue = <<>>
  /\ waitingEvents = <<>>
  /\ evCount = 0
  /\ handled = <<>>
  /\ delays = <<>>
  /\ connectedSeen = FALSE
  /\ sendLog = <<>>
  /\ inflight = {}
  /\ received = {}

NoHash == [kind |-> "none", of |-> 0]

NoFetch == [ran |-> FALSE, ok |-> FALSE, block |-> 0, first |-> 0]

\* no Fetch quorum call is made
FetchIdle ==
  /\ fetchIn = NoHash
  /\ fetchReplies = <<>>
  /\ fetchOut = NoFetch

NoFetched == [ran |-> FALSE, sender |-> 0, asked |-> 0, ok |-> FALSE, block |-> 0, from |-> 0]

\* no node has a block chain
StoreIdle ==
  /\ blockStore = <<>>
  /\ fetched = NoFetched

NoCast == [sender |-> 0, type |-> "none", subConfig |-> {}]

\* no node has broadcast
CastIdle ==
  /\ cast = NoCast

NoStop == [ran |-> FALSE, err |-> FALSE, order |-> <<>>]

\* no experiment is run
CtlIdle ==
  /\ stopHashes = <<>>
  /\ stopErr = FALSE
  /\ stopOut = NoStop
  /\ numReplicas = 0
  /\ numHosts = 0
  /\ nodesToReplicas = <<>>
  /\ nextID = 0
  /\ requested = {}
  /\ skipped = {}

ExtIdle == BackendIdle /\ FetchIdle /\ StoreIdle /\ CastIdle /\ CtlIdle

\* NewCache: an empty cache that no goroutine is calling yet
CacheStart ==
  /\ entries = {}
  /\ accessOrder = <<>>
  /\ panicked = FALSE
  /\ last = NoCall
  /\ signedLive = {}
  /\ clean = TRUE
  /\ inserted = <<>>
  /\ mut = 0
  /\ pc = [t \in Threads |-> "idle"]
  /\ task = [t \in Threads |-> NoTask]
  /\ verifyCalls = 0

InitCache == capacity \in Capacities /\ CacheStart /\ NetIdle /\ SimIdle /\ ExtIdle

NextCache ==
  \/ \E m \in Msgs, ok \in BOOLEAN : Sign(m, ok)
  \/ \E sig \in Sigs, m \in Msgs : Verify(sig, m)
  \/ \E sig \in Sigs, batch \in Batches : BatchVerify(sig, batch)
  \/ Combine

Spec == InitCache /\ [][NextCache]_vars

\* ------------------------------------------------- concurrent callers
\* Goroutines call the cache concurrently. A goroutine is "checking" or
\* "inserting" between mut.Lock() and the deferred mut.Unlock() of cache.check
\* and cache.insert, and in "impl" while the primitive runs and until it gets
\* the mutex for the insert that follows. A call the primitive rejects never
\* reads its key again, so the key is dropped from its task.
Bump(n) == IF n >= 2 THEN 2 ELSE n + 1

ConcOnly == UNCHANGED <<histVars, netVars, simVars, extVars>>

\* cache.Sign, line 75: the primitive signs first
CallSign(t, m, ok) ==
  /\ ~panicked /\ pc[t] = "idle"
  /\ pc' = [pc EXCEPT ![t] = "impl"]
  /\ task' = [task EXCEPT ![t] =
                IF ok THEN Task("Sign", SignKey(ImplSign(m), m), TRUE)
                ELSE Task("Sign", NoKey, FALSE)]
  /\ UNCHANGED <<cacheVars, mut, verifyCalls>>
  /\ ConcOnly

\* cache.Verify, lines 89-94, up to mut.Lock() in cache.check
CallVerify(t, sig, m) ==
  /\ ~panicked /\ pc[t] = "idle" /\ mut = 0
  /\ mut' = t
  /\ pc' = [pc EXCEPT ![t] = "checking"]
  /\ task' = [task EXCEPT ![t] = Task("Verify", VerifyKey(sig, m), ImplVerify(sig, m))]
  /\ UNCHANGED <<cacheVars, verifyCalls>>
  /\ ConcOnly

\* cache.BatchVerify, lines 109-123, up to mut.Lock() in cache.check
CallBatchVerify(t, sig, batch) ==
  /\ ~panicked /\ pc[t] = "idle" /\ mut = 0
  /\ mut' = t
  /\ pc' = [pc EXCEPT ![t] = "checking"]
  /\ task' = [task EXCEPT ![t] =
                Task("BatchVerify", BatchKey(sig, batch), ImplBatchVerify(sig, batch))]
  /\ UNCHANGED <<cacheVars, verifyCalls>>
  /\ ConcOnly

\* cache.Combine: the primitive combines; the cache is not touched
CallCombine(t) ==
  /\ ~panicked /\ pc[t] = "idle"
  /\ pc' = [pc EXCEPT ![t] = "impl"]
  /\ task' = [task EXCEPT ![t] = Task("Combine", NoKey, FALSE)]
  /\ UNCHANGED <<cacheVars, mut, verifyCalls>>
  /\ ConcOnly

\* a check that returns without unlocking when the key is absent
CheckDoneKeepLock(t) ==
  /\ ~panicked /\ pc[t] = "checking" /\ mut = t
  /\ LET c == check(Cur, task[t].key)
     IN /\ entries' = c.lru.entries
        /\ accessOrder' = c.lru.order
        /\ mut' = IF c.hit THEN 0 ELSE t
        /\ pc' = [pc EXCEPT ![t] = IF c.hit THEN "idle" ELSE "impl"]
        /\ task' = [task EXCEPT ![t] = IF c.hit THEN NoTask
                                        ELSE IF @.ans THEN @
                                        ELSE Task(@.op, NoKey, FALSE)]
        /\ verifyCalls' =
             IF ~c.hit /\ task[t].op = "Verify" /\ task[t].key = TrackedKey
             THEN Bump(verifyCalls)
             ELSE verifyCalls
  /\ UNCHANGED <<capacity, panicked>>
  /\ ConcOnly

\* cache.check under the mutex, its deferred Unlock, and the caller's branch:
\* a hit returns true, a miss goes on to the primitive
CheckDone(t) ==
  /\ ~panicked /\ pc[t] = "checking" /\ mut = t
  /\ LET c == check(Cur, task[t].key)
     IN /\ entries' = c.lru.entries
        /\ accessOrder' = c.lru.order
        /\ mut' = 0
        /\ pc' = [pc EXCEPT ![t] = IF c.hit THEN "idle" ELSE "impl"]
        /\ task' = [task EXCEPT ![t] = IF c.hit THEN NoTask
                                        ELSE IF @.ans THEN @
                                        ELSE Task(@.op, NoKey, FALSE)]
        /\ verifyCalls' =
             IF ~c.hit /\ task[t].op = "Verify" /\ task[t].key = TrackedKey
             THEN Bump(verifyCalls)
             ELSE verifyCalls
  /\ UNCHANGED <<capacity, panicked>>
  /\ ConcOnly

\* the primitive returns false, an error, or from Combine: the call returns
ImplReject(t) ==
  /\ ~panicked /\ pc[t] = "impl" /\ ~task[t].ans
  /\ pc' = [pc EXCEPT ![t] = "idle"]
  /\ task' = [task EXCEPT ![t] = NoTask]
  /\ UNCHANGED <<cacheVars, mut, verifyCalls>>
  /\ ConcOnly

\* the primitive returns success: the call goes on to cache.insert, which
\* takes the mutex
ImplAccept(t) ==
  /\ ~panicked /\ pc[t] = "impl" /\ task[t].ans /\ mut = 0
  /\ mut' = t
  /\ pc' = [pc EXCEPT ![t] = "inserting"]
  /\ UNCHANGED <<cacheVars, task, verifyCalls>>
  /\ ConcOnly

\* cache.insert under the mutex and its deferred Unlock; a panic in evict
\* unwinds through the Unlock and ends the process
InsertDone(t) ==
  /\ ~panicked /\ pc[t] = "inserting" /\ mut = t
  /\ LET d == insert(capacity, Cur, task[t].key)
     IN /\ entries' = d.entries
        /\ accessOrder' = d.order
        /\ panicked' = d.panic
        /\ mut' = 0
        /\ pc' = [pc EXCEPT ![t] = IF d.panic THEN "panic" ELSE "idle"]
        /\ task' = [task EXCEPT ![t] = IF d.panic THEN @ ELSE NoTask]
        /\ verifyCalls' = IF TrackedKey \in entries \ d.entries THEN 0
                           ELSE verifyCalls
  /\ UNCHANGED capacity
  /\ ConcOnly

NextConc ==
  \/ \E t \in Threads, m \in ConcMsgs, ok \in BOOLEAN : CallSign(t, m, ok)
  \/ \E t \in Threads, sig \in ConcSigs, m \in ConcMsgs : CallVerify(t, sig, m)
  \/ \E t \in Threads, sig \in ConcSigs, batch \in ConcBatches :
       CallBatchVerify(t, sig, batch)
  \/ \E t \in Threads : CallCombine(t)
  \/ \E t \in Threads : CheckDone(t)
  \/ \E t \in Threads : ImplReject(t)
  \/ \E t \in Threads : ImplAccept(t)
  \/ \E t \in Threads : InsertDone(t)

SpecConc == InitCache /\ [][NextConc]_vars

\* ------------------------------------------------------ twins network
\* Nodes are named by NetworkID. The last node is a twin of replica 1: it has
\* ReplicaID 1 and its own NetworkID.
Nodes == 1..NumNodes

ReplicaOf(n) == IF n = NumNodes THEN 1 ELSE n

ReplicaIds == {ReplicaOf(n) : n \in Nodes}

\* Network.replicas[id]: GetNodeBuilder appends the nodes in creation order
replicas(id) == IF id = 1 THEN <<1, NumNodes>> ELSE <<id>>

\* reflect.TypeOf(message) of what the configuration sends
MsgTypes == {"ProposeMsg", "VoteMsg", "Hash", "NewViewMsg", "TimeoutMsg"}

\* the drop sets: the one ExecuteScenario's comment describes and the one it passes
DropSets == {{"ProposeMsg", "VoteMsg", "Hash"}, MsgTypes}

\* the partitions a view can have: none, overlapping ones, a split,
\* everybody together
PartitionLists ==
  << <<>>,
     <<{1}, {1, 2}>>,
     <<{1, 2}, Nodes \ {1, 2}>>,
     <<Nodes>> >>

View(leader, partitions) == [Leader |-> leader, Partitions |-> partitions]

\* the view plans: every entry runs through PartitionLists from a different
\* start
Plan(start, len) ==
  [i \in 1..len |->
     View(((i - 1) % Cardinality(ReplicaIds)) + 1,
          PartitionLists[((i + start) % Len(PartitionLists)) + 1])]

\* a plan covers every view a node can be in, or the first view only
Plans == {Plan(start, MaxView + 1) : start \in 1..Len(PartitionLists)} \cup {Plan(1, 1)}

\* NodeSet.Contains
Contains(set, v) == v \in set

\* Network.shouldDrop, lines 194-198: some partition contains both
RECURSIVE SharePartition(_, _, _)
SharePartition(partitions, sender, receiver) ==
  IF partitions = <<>> THEN FALSE
  ELSE IF Contains(Head(partitions), sender) /\ Contains(Head(partitions), receiver)
  THEN TRUE
  ELSE SharePartition(Tail(partitions), sender, receiver)

\* an index that follows the synchronizer's view only
PlanIndexSyncOnly(sender) == -1 + syncView[sender]

\* Network.shouldDrop, lines 176-182: the index into the view plan
PlanIndex(sender) ==
  IF effectiveView[sender] > syncView[sender]
  THEN -1 + effectiveView[sender]
  ELSE -1 + syncView[sender]

\* a shouldDrop that stops at the first partition holding the sender
shouldDropFirstPartition(sender, receiver, type) ==
  LET i == PlanIndex(sender)
  IN IF i < 0 THEN FALSE
     ELSE IF i >= Len(views) THEN TRUE
     ELSE LET ps == views[i + 1].Partitions
              mine == SelectSeq(ps, LAMBDA x : Contains(x, sender))
          IN IF mine # <<>> /\ Contains(Head(mine), receiver) THEN FALSE
             ELSE type \in dropTypes

\* Network.shouldDrop
shouldDrop(sender, receiver, type) ==
  LET i == PlanIndex(sender)
  IN IF i < 0 THEN FALSE
     ELSE IF i >= Len(views) THEN TRUE
     ELSE IF SharePartition(views[i + 1].Partitions, sender, receiver) THEN FALSE
     ELSE type \in dropTypes

pendingMessage(message, receiver) == [message |-> message, receiver |-> receiver]

\* configuration.sendMessage, lines 240-253: the loop over the replica's nodes
RECURSIVE sendLoop(_, _, _, _)
sendLoop(pending, sender, nodes, type) ==
  IF nodes = <<>> THEN pending
  ELSE IF shouldDrop(sender, Head(nodes), type)
  THEN sendLoop(pending, sender, Tail(nodes), type)
  ELSE sendLoop(Append(pending, pendingMessage(type, Head(nodes))),
                sender, Tail(nodes), type)

\* the same loop for a message that is more than its type
RECURSIVE sendLoopMsg(_, _, _, _)
sendLoopMsg(pending, sender, nodes, message) ==
  IF nodes = <<>> THEN pending
  ELSE IF shouldDrop(sender, Head(nodes), message.type)
  THEN sendLoopMsg(pending, sender, Tail(nodes), message)
  ELSE sendLoopMsg(Append(pending, pendingMessage(message, Head(nodes))),
                   sender, Tail(nodes), message)

NetOnly == UNCHANGED <<cacheVars, histVars, concVars, simVars, extVars>>

\* configuration.sendMessage, called by node `sender` (replica.Vote,
\* replica.NewView, broadcastMessage); one send between two ticks
sendMessage(sender, id, type) ==
  /\ pendingMessages = <<>>
  /\ pendingMessages' = sendLoop(pendingMessages, sender, replicas(id), type)
  /\ UNCHANGED <<views, dropTypes, syncView, effectiveView>>
  /\ NetOnly

\* Network.tick, lines 155-158: the queued messages go to their receivers'
\* event loops and the queue is emptied
tick ==
  /\ pendingMessages # <<>>
  /\ pendingMessages' = <<>>
  /\ UNCHANGED <<views, dropTypes, syncView, effectiveView>>
  /\ NetOnly

\* the synchronizer of node n enters its next view and emits a ViewChangeEvent
ViewChange(n) ==
  /\ syncView[n] < MaxView
  /\ syncView' = [syncView EXCEPT ![n] = @ + 1]
  /\ UNCHANGED <<views, dropTypes, effectiveView, pendingMessages>>
  /\ NetOnly

\* timeoutManager.advance on the tick that brings the countdown to 0. The
\* countdown starts at 0 and is set to the timeout by viewChange only, so it
\* reaches 0 only after the node has seen a ViewChangeEvent.
LocalTimeout(n) ==
  /\ syncView[n] > 1
  /\ effectiveView[n] <= syncView[n]
  /\ effectiveView' = [effectiveView EXCEPT ![n] = syncView[n] + 1]
  /\ UNCHANGED <<views, dropTypes, syncView, pendingMessages>>
  /\ NetOnly

\* NewPartitionedNetwork and createTwinsNodes
InitNet ==
  /\ views \in Plans
  /\ dropTypes \in DropSets
  /\ syncView = [n \in Nodes |-> 1]
  /\ effectiveView = [n \in Nodes |-> 0]
  /\ pendingMessages = <<>>
  /\ capacity = 100
  /\ CacheStart
  /\ SimIdle /\ ExtIdle

NextNet ==
  \/ \E sender \in Nodes, id \in ReplicaIds, type \in MsgTypes :
       sendMessage(sender, id, type)
  \/ tick
  \/ \E n \in Nodes : ViewChange(n)
  \/ \E n \in Nodes : LocalTimeout(n)

SpecNet == InitNet /\ [][NextNet]_vars

\* ExecuteScenario: the network it builds drops all five message types
InitScenario == InitNet /\ dropTypes = MsgTypes

SpecScenario == InitScenario /\ [][NextNet]_vars

\* Network.shouldDrop as a function of the sender's two views. View is an
\* unsigned integer whose value 0 is the genesis view, so the views range
\* from 0 here; all nodes are in the same view and none moves.
InitDrop ==
  /\ views \in Plans
  /\ dropTypes \in DropSets
  /\ \E v \in 0..MaxView : syncView = [n \in Nodes |-> v]
  /\ \E e \in 0..(MaxView + 1) : effectiveView = [n \in Nodes |-> e]
  /\ pendingMessages = <<>>
  /\ capacity = 100
  /\ CacheStart
  /\ SimIdle /\ ExtIdle

NextDrop ==
  \/ \E sender \in Nodes, id \in ReplicaIds, type \in MsgTypes :
       sendMessage(sender, id, type)
  \/ tick

SpecDrop == InitDrop /\ [][NextDrop]_vars

\* ------------------------------------------------------ twins timeouts
\* createTwinsNodes: every node gets a timeoutManager with this timeout
timeout == 5

\* the nodes whose timeoutManager is followed
TimerNodes == {1}

NoEvent == [kind |-> "none", View |-> 0]

\* synchronizer.TimeoutEvent{View: view}
TimeoutEvent(view) == [kind |-> "TimeoutEvent", View |-> view]

TimerOnly ==
  UNCHANGED <<cacheVars, histVars, concVars, views, dropTypes, pendingMessages,
              commitVars, carVars, runVars, extVars>>

\* a viewChange that leaves the countdown running
viewChangeKeepCountdown(n) ==
  /\ vcePending[n]
  /\ vcePending' = [vcePending EXCEPT ![n] = FALSE]
  /\ sinceChange' = [sinceChange EXCEPT ![n] = 0]
  /\ observed' = [observed EXCEPT ![n] = TRUE]
  /\ lastEmit' = [lastEmit EXCEPT ![n] = NoEvent]
  /\ UNCHANGED <<countdown, tickNo, fired, syncView, effectiveView>>
  /\ TimerOnly

\* timeoutManager.advance, the observer of node n's tick event; Network.run
\* is called with MaxTicks ticks and returns after the last one
advance(n) ==
  /\ tickNo < MaxTicks
  /\ tickNo' = tickNo + 1
  /\ sinceChange' = [sinceChange EXCEPT ![n] = @ + 1]
  /\ IF countdown[n] - 1 = 0
     THEN /\ lastEmit' = [lastEmit EXCEPT ![n] = TimeoutEvent(syncView[n])]
          /\ fired' = [fired EXCEPT ![n] = TRUE]
          /\ countdown' = [countdown EXCEPT ![n] = timeout]
          /\ effectiveView' = [effectiveView EXCEPT ![n] =
                                 IF @ <= syncView[n] THEN syncView[n] + 1 ELSE @]
     ELSE /\ lastEmit' = [lastEmit EXCEPT ![n] = NoEvent]
          /\ countdown' = [countdown EXCEPT ![n] = @ - 1]
          /\ UNCHANGED <<fired, effectiveView>>
  /\ UNCHANGED <<vcePending, observed, syncView>>
  /\ TimerOnly

\* the synchronizer of node n moves to its next view and puts a
\* ViewChangeEvent into the node's event loop
AdvanceView(n) ==
  /\ syncView[n] < MaxView
  /\ ~vcePending[n]
  /\ syncView' = [syncView EXCEPT ![n] = @ + 1]
  /\ vcePending' = [vcePending EXCEPT ![n] = TRUE]
  /\ UNCHANGED <<countdown, tickNo, sinceChange, observed, lastEmit, fired, effectiveView>>
  /\ TimerOnly

\* timeoutManager.viewChange, the observer of node n's ViewChangeEvent
viewChange(n) ==
  /\ vcePending[n]
  /\ countdown' = [countdown EXCEPT ![n] = timeout]
  /\ vcePending' = [vcePending EXCEPT ![n] = FALSE]
  /\ sinceChange' = [sinceChange EXCEPT ![n] = 0]
  /\ observed' = [observed EXCEPT ![n] = TRUE]
  /\ lastEmit' = [lastEmit EXCEPT ![n] = NoEvent]
  /\ UNCHANGED <<tickNo, fired, syncView, effectiveView>>
  /\ TimerOnly

\* createTwinsNodes: the countdown is the zero value of its type, the node
\* starts in view 1 with no ViewChangeEvent in its event loop
InitTimer ==
  /\ countdown = [n \in TimerNodes |-> 0]
  /\ tickNo = 0
  /\ vcePending = [n \in TimerNodes |-> FALSE]
  /\ sinceChange = [n \in TimerNodes |-> 0]
  /\ observed = [n \in TimerNodes |-> FALSE]
  /\ lastEmit = [n \in TimerNodes |-> NoEvent]
  /\ fired = [n \in TimerNodes |-> FALSE]
  /\ syncView = [n \in TimerNodes |-> 1]
  /\ effectiveView = [n \in TimerNodes |-> 0]
  /\ views = <<>>
  /\ dropTypes = {}
  /\ pendingMessages = <<>>
  /\ capacity = 100
  /\ CacheStart
  /\ CommitIdle /\ CarouselIdle /\ RunIdle /\ ExtIdle

NextTimer ==
  \/ \E n \in TimerNodes : advance(n)
  \/ \E n \in TimerNodes : AdvanceView(n)
  \/ \E n \in TimerNodes : viewChange(n)

SpecTimer == InitTimer /\ [][NextTimer]_vars

\* Network.run: every one of its ticks reaches every node
SpecTimerLive == SpecTimer /\ \A n \in TimerNodes : WF_vars(advance(n))

\* ------------------------------------------------------- checkCommits
\* the scenario checked: replica 1 has a twin, NumCorrect replicas have none
CommitReplicaIds == 1..(NumCorrect + 1)

CommitNodes == 1..(NumCorrect + 2)

\* network.replicas of that scenario
commitReplicas(id) == IF id = 1 THEN <<1, NumCorrect + 2>> ELSE <<id>>

Blocks == 1..NumBlocks

\* consensus.Block.Hash
BlockHash(b) == [kind |-> "blockhash", of |-> b]

Result(safe, commits) == [ran |-> TRUE, safe |-> safe, commits |-> commits]

\* a checkCommits that also counts the first node of a twinned replica
RECURSIVE checkCommitsWithTwins(_, _)
checkCommitsWithTwins(exec, i) ==
  LET counted == {id \in CommitReplicaIds : Len(exec[commitReplicas(id)[1]]) > i}
      commitCount == {BlockHash(exec[commitReplicas(id)[1]][i + 1]) : id \in counted}
  IN IF counted = {} THEN Result(TRUE, i)
     ELSE IF Cardinality(commitCount) # 1 THEN Result(FALSE, i)
     ELSE checkCommitsWithTwins(exec, i + 1)

\* checkCommits, the loop from index i on; commitCount is the key set of the map
RECURSIVE checkCommitsFrom(_, _)
checkCommitsFrom(exec, i) ==
  LET counted == {id \in CommitReplicaIds :
                    /\ Len(commitReplicas(id)) = 1
                    /\ Len(exec[commitReplicas(id)[1]]) > i}
      commitCount == {BlockHash(exec[commitReplicas(id)[1]][i + 1]) : id \in counted}
  IN IF counted = {} THEN Result(TRUE, i)
     ELSE IF Cardinality(commitCount) # 1 THEN Result(FALSE, i)
     ELSE checkCommitsFrom(exec, i + 1)

checkCommits(exec) == checkCommitsFrom(exec, 0)

RECURSIVE TotalExec(_, _)
TotalExec(exec, n) == IF n = 0 THEN 0 ELSE Len(exec[n]) + TotalExec(exec, n - 1)

CommitOnly ==
  UNCHANGED <<cacheVars, histVars, concVars, netVars, timerVars, carVars, runVars,
              extVars>>

\* commandModule.Exec on node n
Exec(n, block) ==
  /\ ~commitResult.ran
  /\ TotalExec(executedBlocks, NumCorrect + 2) < MaxExec
  /\ executedBlocks' = [executedBlocks EXCEPT ![n] = Append(@, block)]
  /\ UNCHANGED commitResult
  /\ CommitOnly

\* ExecuteScenario, line 90: the run is over and checkCommits is called
CheckCommits ==
  /\ ~commitResult.ran
  /\ commitResult' = checkCommits(executedBlocks)
  /\ UNCHANGED executedBlocks
  /\ CommitOnly

InitCommits ==
  /\ executedBlocks = [n \in CommitNodes |-> <<>>]
  /\ commitResult = NoResult
  /\ capacity = 100
  /\ CacheStart
  /\ NetIdle
  /\ TimerIdle /\ CarouselIdle /\ RunIdle /\ ExtIdle

NextCommits ==
  \/ \E n \in CommitNodes, block \in Blocks : Exec(n, block)
  \/ CheckCommits

SpecCommits == InitCommits /\ [][NextCommits]_vars

\* ----------------------------------------------------------- carousel
\* hotstuff.NumFaulty
NumFaulty(n) == (n - 1) \div 3

\* consensus.ChainLength of chained HotStuff
ChainLength == 3

\* chooseRoundRobin
chooseRoundRobin(round, n) == (round % n) + 1

\* the replicas of the configuration
CarouselIds == 1..ConfigLen

\* who proposes the committed blocks: enough replicas to fill lastAuthors
\* and leave an older author outside
Authors == 1..(NumFaulty(ConfigLen) + 1)

\* the participants a quorum certificate can have
Quorums == {P \in SUBSET CarouselIds : Cardinality(P) >= ConfigLen - NumFaulty(ConfigLen)}

\* a walk that is not bounded by f
RECURSIVE walkUnbounded(_, _, _, _, _, _)
walkUnbounded(props, f, pos, i, ok, left) ==
  IF ok /\ pos # 0
  THEN {props[pos]} \cup walkUnbounded(props, f, pos - 1, i + 1, left > 0, left - 1)
  ELSE {}

\* GetLeader, lines 48-52: the walk from block number pos of the chain
\* (0 is genesis); ok is the result of the last BlockChain().Get, of which
\* `left` more will succeed
RECURSIVE walk(_, _, _, _, _, _)
walk(props, f, pos, i, ok, left) ==
  IF ok /\ i < f /\ pos # 0
  THEN {props[pos]} \cup walk(props, f, pos - 1, i + 1, left > 0, left - 1)
  ELSE {}

\* candidates that keep the last authors
CandidatesAll(participants, lastAuthors) == SortedIds(participants)

\* GetLeader, lines 54-60
Candidates(participants, lastAuthors) == SortedIds(participants \ lastAuthors)

Leader(kind, leader, avail, round) ==
  [kind |-> kind, leader |-> leader, avail |-> avail, round |-> round]

\* round - consensus.View(ChainLength()) on the unsigned 64-bit View: below
\* ChainLength the difference wraps around to 2^64 - (k - round), which is
\* above every view a block of the model has; -1 stands for it
ViewSub(round, k) == IF round >= k THEN round - k ELSE -1

\* GetLeader without the test of the commit head's signature
GetLeaderNoStartup(round, rnd, avail) ==
  IF Len(proposers) # ViewSub(round, ChainLength)
  THEN Leader("round-robin", chooseRoundRobin(round, configLen), avail, round)
  ELSE LET f == NumFaulty(configLen)
           lastAuthors == walk(proposers, f, Len(proposers), 0, TRUE, avail)
           candidates == Candidates(headParticipants, lastAuthors)
       IN IF Len(candidates) = 0
          THEN Leader("panic", 0, avail, round)
          ELSE Leader("carousel", candidates[(rnd % Len(candidates)) + 1], avail, round)

\* carousel.GetLeader; rnd is c.rnd.Int(), avail is the number of parent
\* blocks the block chain still has
GetLeader(round, rnd, avail) ==
  IF proposers = <<>>
  THEN Leader("round-robin", chooseRoundRobin(round, configLen), avail, round)
  ELSE IF Len(proposers) # ViewSub(round, ChainLength)
  THEN Leader("round-robin", chooseRoundRobin(round, configLen), avail, round)
  ELSE LET f == NumFaulty(configLen)
           lastAuthors == walk(proposers, f, Len(proposers), 0, TRUE, avail)
           candidates == Candidates(headParticipants, lastAuthors)
       IN IF Len(candidates) = 0
          THEN Leader("panic", 0, avail, round)
          ELSE Leader("carousel", candidates[(rnd % Len(candidates)) + 1], avail, round)

CarouselOnly ==
  UNCHANGED <<cacheVars, histVars, concVars, netVars, timerVars, commitVars, runVars,
              extVars>>

\* a block proposed by p is committed; its view is its height, and the
\* quorum certificate it carries has the given participants
CommitBlock(p, participants) ==
  /\ Len(proposers) < MaxChain
  /\ proposers' = Append(proposers, p)
  /\ headParticipants' = participants
  /\ leaderOut' = NoLeader
  /\ UNCHANGED configLen
  /\ CarouselOnly

\* a call of carousel.GetLeader
CallGetLeader(round, rnd, avail) ==
  /\ leaderOut' = GetLeader(round, rnd, avail)
  /\ UNCHANGED <<proposers, headParticipants, configLen>>
  /\ CarouselOnly

InitCarousel ==
  /\ proposers = <<>>
  /\ headParticipants = {}
  /\ leaderOut = NoLeader
  /\ configLen = ConfigLen
  /\ capacity = 100
  /\ CacheStart
  /\ NetIdle
  /\ TimerIdle /\ CommitIdle /\ RunIdle /\ ExtIdle

\* the rounds GetLeader is asked about: rounds below the chain length, and
\* the rounds around the one that is ChainLength above the commit head
Rounds ==
  {0, ChainLength - 1} \cup {Len(proposers) + ChainLength + d : d \in {-1, 0, 1}}

NextCarousel ==
  \/ \E p \in Authors, participants \in Quorums : CommitBlock(p, participants)
  \/ \E round \in Rounds,
        rnd \in 0..(ConfigLen - 1),
        avail \in 0..(NumFaulty(ConfigLen) - 1) : CallGetLeader(round, rnd, avail)

SpecCarousel == InitCarousel /\ [][NextCarousel]_vars

\* the carousel selection in configurations of every size from 1 to ConfigLen
\* the participants a quorum certificate of n replicas can have
QuorumsOf(n) == {P \in SUBSET (1..n) : Cardinality(P) >= n - NumFaulty(n)}

\* who proposes the committed blocks in a configuration of n replicas: as
\* many distinct replicas as the chain is long, all of them when n is smaller
AuthorsOf(n) == 1..(IF n < MaxChain THEN n ELSE MaxChain)

InitAnySize ==
  /\ proposers = <<>>
  /\ headParticipants = {}
  /\ leaderOut = NoLeader
  /\ configLen \in 1..ConfigLen
  /\ capacity = 100
  /\ CacheStart
  /\ NetIdle
  /\ TimerIdle /\ CommitIdle /\ RunIdle /\ ExtIdle

\* GetLeader is asked for the round that is ChainLength above the commit
\* head, with the parents of the head all stored or none of them
NextAnySize ==
  \/ \E p \in AuthorsOf(configLen), participants \in QuorumsOf(configLen) :
        CommitBlock(p, participants)
  \/ \E rnd \in {0, configLen - 1}, avail \in {0, MaxChain} :
        CallGetLeader(Len(proposers) + ChainLength, rnd, avail)

SpecAnySize == InitAnySize /\ [][NextAnySize]_vars

\* ---------------------------------------------------------- Network.run
\* the twins leaderRotation: the view plan names the leader of every view
GetLeaderOfView(view) == views[view].Leader

\* strconv.FormatUint(n, 10), as the sequence of its decimal digits
RECURSIVE FormatUint(_)
FormatUint(n) == IF n < 10 THEN <<n>> ELSE FormatUint(n \div 10) \o <<n % 10>>

\* a message: its type, the command of the block it proposes (none for the
\* other types) and, as history, its number among the messages sent
Message(type, cmd, seq) == [type |-> type, cmd |-> cmd, seq |-> seq]

\* the tick{} event
TickEvent == Message("tick", <<>>, 0)

\* the orders in which a range loop can visit the keys of a map
Orders(S) == {o \in [1..Cardinality(S) -> S] : \A i, j \in 1..Cardinality(S) : o[i] = o[j] => i = j}

\* the state Network.run works on while it kicks off the first proposals
RunState(pending, next, count, cmds) ==
  [pending |-> pending, nextCmd |-> next, msgCount |-> count, cmds |-> cmds]

\* configuration.subConfig of a configuration that is no sub-configuration
NoSubConfig == [nil |-> TRUE, ids |-> {}]

\* configuration.SubConfig(ids)
SubConfig(ids) == [nil |-> FALSE, ids |-> ids]

\* a broadcast that does not skip the sender's own replica ID
RECURSIVE broadcastMessageToOwn(_, _, _, _, _, _)
broadcastMessageToOwn(pending, sender, message, rorder, k, subConfig) ==
  IF k > Len(rorder) THEN pending
  ELSE IF subConfig.nil \/ Contains(subConfig.ids, rorder[k])
  THEN broadcastMessageToOwn(sendLoopMsg(pending, sender, replicas(rorder[k]), message),
                             sender, message, rorder, k + 1, subConfig)
  ELSE broadcastMessageToOwn(pending, sender, message, rorder, k + 1, subConfig)

\* configuration.broadcastMessage by node `sender`, visiting the replicas in
\* the order rorder from position k on
RECURSIVE broadcastMessage(_, _, _, _, _, _)
broadcastMessage(pending, sender, message, rorder, k, subConfig) ==
  IF k > Len(rorder) THEN pending
  ELSE IF rorder[k] = ReplicaOf(sender)
  THEN broadcastMessage(pending, sender, message, rorder, k + 1, subConfig)
  ELSE IF subConfig.nil \/ Contains(subConfig.ids, rorder[k])
  THEN broadcastMessage(sendLoopMsg(pending, sender, replicas(rorder[k]), message),
                        sender, message, rorder, k + 1, subConfig)
  ELSE broadcastMessage(pending, sender, message, rorder, k + 1, subConfig)

\* Consensus.Propose of node n: the command source gives the next command
\* (commandModule.Get, commandGenerator.next) and the proposal is broadcast
Propose(st, n, rorder) ==
  LET cmd == FormatUint(st.nextCmd)
      msg == Message("ProposeMsg", cmd, st.msgCount + 1)
  IN RunState(broadcastMessage(st.pending, n, msg, rorder, 1, NoSubConfig),
              st.nextCmd + 1, st.msgCount + 1,
              [st.cmds EXCEPT ![n] = cmd])

\* Network.run, lines 142-146: the nodes are visited in the order norder
RECURSIVE kickoff(_, _, _, _)
kickoff(st, norder, rorder, k) ==
  IF k > Len(norder) THEN st
  ELSE IF GetLeaderOfView(1) = ReplicaOf(norder[k])
  THEN kickoff(Propose(st, norder[k], rorder), norder, rorder, k + 1)
  ELSE kickoff(st, norder, rorder, k + 1)

RunOnly ==
  UNCHANGED <<cacheVars, histVars, concVars, timerVars, commitVars, carVars,
              views, dropTypes, syncView, effectiveView, extVars>>

StartState == RunState(<<>>, 0, 0, [n \in Nodes |-> <<>>])

\* Network.run, lines 141-146
RunKickoff(norder, rorder) ==
  /\ phase = "start"
  /\ LET st == kickoff(StartState, norder, rorder, 1)
     IN /\ pendingMessages' = st.pending
        /\ nextCmd' = st.nextCmd
        /\ msgCount' = st.msgCount
        /\ sentThisTick' = 1..st.msgCount
  /\ phase' = "idle"
  /\ UNCHANGED <<eventLoop, cur, drained, sentInDrain, tickEvents>>
  /\ RunOnly

\* the events tick adds to node n's event loop, in the order of the queue
RECURSIVE deliveries(_, _)
deliveries(pending, n) ==
  IF pending = <<>> THEN <<>>
  ELSE IF Head(pending).receiver = n
  THEN <<Head(pending).message>> \o deliveries(Tail(pending), n)
  ELSE deliveries(Tail(pending), n)

\* a delivery that leaves the messages in the queue
TickDeliverKeepPending ==
  /\ phase = "idle"
  /\ eventLoop' = [n \in Nodes |-> eventLoop[n] \o deliveries(pendingMessages, n)]
  /\ phase' = "drain"
  /\ cur' = 0
  /\ drained' = {}
  /\ sentThisTick' = {}
  /\ tickEvents' = [n \in Nodes |-> 0]
  /\ UNCHANGED <<pendingMessages, nextCmd, msgCount, sentInDrain>>
  /\ RunOnly

\* Network.tick, lines 155-158
TickDeliver ==
  /\ phase = "idle"
  /\ eventLoop' = [n \in Nodes |-> eventLoop[n] \o deliveries(pendingMessages, n)]
  /\ pendingMessages' = <<>>
  /\ phase' = "drain"
  /\ cur' = 0
  /\ drained' = {}
  /\ sentThisTick' = {}
  /\ tickEvents' = [n \in Nodes |-> 0]
  /\ UNCHANGED <<nextCmd, msgCount, sentInDrain>>
  /\ RunOnly

\* Network.tick, lines 160-161: the range loop reaches node n
TickNode(n) ==
  /\ phase = "drain"
  /\ cur = 0
  /\ n \notin drained
  /\ eventLoop' = [eventLoop EXCEPT ![n] = Append(@, TickEvent)]
  /\ tickEvents' = [tickEvents EXCEPT ![n] = @ + 1]
  /\ cur' = n
  /\ UNCHANGED <<pendingMessages, phase, drained, nextCmd, msgCount, sentThisTick, sentInDrain>>
  /\ RunOnly

\* EventLoop.Tick of node n, line 163: the first event is taken out and its
\* handlers run without sending anything
Dispatch(n) ==
  /\ phase = "drain"
  /\ cur = n
  /\ eventLoop[n] # <<>>
  /\ eventLoop' = [eventLoop EXCEPT ![n] = Tail(@)]
  /\ UNCHANGED <<pendingMessages, phase, cur, drained, nextCmd, msgCount, sentThisTick,
                 sentInDrain, tickEvents>>
  /\ RunOnly

\* what replica.Vote and replica.NewView hand to configuration.sendMessage
SentToOne == {"VoteMsg", "NewViewMsg"}

\* EventLoop.Tick of node n, line 163: the first event is taken out and a
\* handler sends a message to replica id (configuration.sendMessage)
DispatchSend(n, id, type) ==
  /\ phase = "drain"
  /\ cur = n
  /\ eventLoop[n] # <<>>
  /\ Cardinality(sentInDrain) < MaxSends
  /\ eventLoop' = [eventLoop EXCEPT ![n] = Tail(@)]
  /\ msgCount' = msgCount + 1
  /\ pendingMessages' = sendLoopMsg(pendingMessages, n, replicas(id),
                                    Message(type, <<>>, msgCount + 1))
  /\ sentThisTick' = sentThisTick \cup {msgCount + 1}
  /\ sentInDrain' = sentInDrain \cup {msgCount + 1}
  /\ UNCHANGED <<phase, cur, drained, nextCmd, tickEvents>>
  /\ RunOnly

\* Network.tick, lines 163-164: EventLoop.Tick finds node n's loop empty
DrainDone(n) ==
  /\ phase = "drain"
  /\ cur = n
  /\ eventLoop[n] = <<>>
  /\ drained' = drained \cup {n}
  /\ cur' = 0
  /\ UNCHANGED <<pendingMessages, eventLoop, phase, nextCmd, msgCount, sentThisTick,
                 sentInDrain, tickEvents>>
  /\ RunOnly

\* Network.tick returns: the range loop has visited every node
TickEnd ==
  /\ phase = "drain"
  /\ cur = 0
  /\ drained = Nodes
  /\ phase' = "idle"
  /\ UNCHANGED <<pendingMessages, eventLoop, cur, drained, nextCmd, msgCount,
                 sentThisTick, sentInDrain, tickEvents>>
  /\ RunOnly

\* the scenarios run: view 1 splits the nodes or holds them all together
RunPlans == {Plan(1, MaxView + 1), Plan(2, MaxView + 1)}

\* ExecuteScenario up to the call of Network.run
InitRun ==
  /\ views \in RunPlans
  /\ dropTypes = MsgTypes
  /\ syncView = [n \in Nodes |-> 1]
  /\ effectiveView = [n \in Nodes |-> 0]
  /\ pendingMessages = <<>>
  /\ eventLoop = [n \in Nodes |-> <<>>]
  /\ phase = "start"
  /\ cur = 0
  /\ drained = {}
  /\ nextCmd = 0
  /\ msgCount = 0
  /\ sentThisTick = {}
  /\ sentInDrain = {}
  /\ tickEvents = [n \in Nodes |-> 0]
  /\ capacity = 100
  /\ CacheStart
  /\ TimerIdle /\ CommitIdle /\ CarouselIdle /\ ExtIdle

NextRun ==
  \/ \E norder \in Orders(Nodes), rorder \in Orders(ReplicaIds) : RunKickoff(norder, rorder)
  \/ TickDeliver
  \/ \E n \in Nodes : TickNode(n)
  \/ \E n \in Nodes : Dispatch(n)
  \/ \E n \in Nodes, id \in ReplicaIds, type \in SentToOne : DispatchSend(n, id, type)
  \/ \E n \in Nodes : DrainDone(n)
  \/ TickEnd

SpecRun == InitRun /\ [][NextRun]_vars

\* ------------------------------------------------------ backend.Config
\* The configuration of replica LocalId. Connect runs on the goroutine that
\* starts the replica, the handlers on the event loop's goroutine, and the
\* gorums server adds a replicaConnected event when a peer connects.

\* cfg.mods.ID()
LocalId == 1

\* the IDs of the ReplicaInfo slice given to Connect
BackendIds == 1..NumBackend

\* the IDs a connecting peer can present: a replica of the configuration
\* and one that is not in it
PeerIds == {2, NumBackend + 1}

\* a replicaConnected event; ok is peerok && mdok of its context
ReplicaConnectedEvent(seq, id, ok) ==
  [type |-> "replicaConnected", seq |-> seq, id |-> id, ok |-> ok]

\* connected{}
ConnectedEvent == [type |-> "connected", seq |-> 0, id |-> 0, ok |-> TRUE]

BackendOnly ==
  UNCHANGED <<cacheVars, histVars, concVars, netVars, simVars, fetchVars, storeVars, castVars, ctlVars>>

\* the gorums server adds a replicaConnected event for a peer
AddReplicaConnected(id, ok) ==
  /\ evCount < MaxEvents
  /\ evCount' = evCount + 1
  /\ eventQueue' = Append(eventQueue, ReplicaConnectedEvent(evCount + 1, id, ok))
  /\ UNCHANGED <<connected, connectPc, cfgReplicas, nodeOf, md, waitingEvents,
                 handled, delays, connectedSeen>>
  /\ UNCHANGED sendVars
  /\ BackendOnly

\* Config.Connect, lines 175-202: the Replica structures
ConnectStart ==
  /\ connectPc = "new"
  /\ connectPc' = "dialing"
  /\ cfgReplicas' = BackendIds
  /\ md' = [id \in BackendIds |-> 0]
  /\ UNCHANGED <<connected, nodeOf, eventQueue, waitingEvents, evCount, handled,
                 delays, connectedSeen>>
  /\ UNCHANGED sendVars
  /\ BackendOnly

\* Config.Connect, lines 205-208: mgr.NewConfiguration fails
ConnectFail ==
  /\ connectPc = "dialing"
  /\ connectPc' = "failed"
  /\ UNCHANGED <<connected, cfgReplicas, nodeOf, md, eventQueue, waitingEvents,
                 evCount, handled, delays, connectedSeen>>
  /\ UNCHANGED sendVars
  /\ BackendOnly

\* a Connect that also connects to the local replica
ConnectMarkSelf ==
  /\ connectPc = "dialing"
  /\ connectPc' = "marked"
  /\ nodeOf' = cfgReplicas
  /\ connected' = TRUE
  /\ UNCHANGED <<cfgReplicas, md, eventQueue, waitingEvents, evCount, handled,
                 delays, connectedSeen>>
  /\ UNCHANGED sendVars
  /\ BackendOnly

\* Config.Connect, lines 205-219: the nodes of the gorums configuration are
\* those of idMapping, every replica but the local one
ConnectMark ==
  /\ connectPc = "dialing"
  /\ connectPc' = "marked"
  /\ nodeOf' = cfgReplicas \ {LocalId}
  /\ connected' = TRUE
  /\ UNCHANGED <<cfgReplicas, md, eventQueue, waitingEvents, evCount, handled,
                 delays, connectedSeen>>
  /\ UNCHANGED sendVars
  /\ BackendOnly

\* Config.Connect, lines 222-224
ConnectReturn ==
  /\ connectPc = "marked"
  /\ connectPc' = "done"
  /\ eventQueue' = Append(eventQueue, ConnectedEvent)
  /\ UNCHANGED <<connected, cfgReplicas, nodeOf, md, waitingEvents, evCount,
                 handled, delays, connectedSeen>>
  /\ UNCHANGED sendVars
  /\ BackendOnly

\* Config.replicaConnected: the metadata map of the peer's Replica
replicaConnected(c) ==
  IF ~c.ok THEN md
  ELSE IF c.id \notin cfgReplicas THEN md
  ELSE [md EXCEPT ![c.id] = c.seq]

\* a handler that never delays
onReplicaConnectedNoDelay(event) ==
  /\ handled' = Append(handled, event.seq)
  /\ md' = replicaConnected(event)
  /\ UNCHANGED <<waitingEvents, delays>>

\* the handler InitConsensusModule registers, lines 91-97
onReplicaConnected(event) ==
  IF ~connected
  THEN /\ waitingEvents' = Append(waitingEvents, event)
       /\ delays' = Append(delays, event.seq)
       /\ UNCHANGED <<handled, md>>
  ELSE /\ handled' = Append(handled, event.seq)
       /\ md' = replicaConnected(event)
       /\ UNCHANGED <<waitingEvents, delays>>

\* the event loop processes a replicaConnected event
ProcessReplicaConnected ==
  /\ eventQueue # <<>>
  /\ Head(eventQueue).type = "replicaConnected"
  /\ onReplicaConnected(Head(eventQueue))
  /\ eventQueue' = Tail(eventQueue)
  /\ UNCHANGED <<connected, connectPc, cfgReplicas, nodeOf, evCount, connectedSeen>>
  /\ UNCHANGED sendVars
  /\ BackendOnly

\* a dispatch of the delayed events that loses them
dispatchDelayedLost(queue) == queue

\* EventLoop: the events DelayUntil held back for the processed type are
\* added to the queue again
dispatchDelayed(queue) == queue \o waitingEvents

\* the event loop processes a connected event: it has no handler, and the
\* events that waited for it are dispatched
ProcessConnected ==
  /\ eventQueue # <<>>
  /\ Head(eventQueue).type = "connected"
  /\ connectedSeen' = TRUE
  /\ eventQueue' = dispatchDelayed(Tail(eventQueue))
  /\ waitingEvents' = <<>>
  /\ UNCHANGED <<connected, connectPc, cfgReplicas, nodeOf, md, evCount, handled,
                 delays>>
  /\ UNCHANGED sendVars
  /\ BackendOnly

\* NewConfig and InitConsensusModule
InitBackend ==
  /\ connected = FALSE
  /\ connectPc = "new"
  /\ cfgReplicas = {}
  /\ nodeOf = {}
  /\ md = <<>>
  /\ eventQueue = <<>>
  /\ waitingEvents = <<>>
  /\ evCount = 0
  /\ handled = <<>>
  /\ delays = <<>>
  /\ connectedSeen = FALSE
  /\ sendLog = <<>>
  /\ inflight = {}
  /\ received = {}
  /\ capacity = 100
  /\ CacheStart
  /\ NetIdle
  /\ SimIdle /\ FetchIdle /\ StoreIdle /\ CastIdle /\ CtlIdle

NextBackend ==
  \/ \E id \in PeerIds, ok \in BOOLEAN : AddReplicaConnected(id, ok)
  \/ ConnectStart
  \/ ConnectFail
  \/ ConnectMark
  \/ ConnectReturn
  \/ ProcessReplicaConnected
  \/ ProcessConnected

SpecBackend == InitBackend /\ [][NextBackend]_vars

\* the event loop keeps running and Connect is not suspended for ever
SpecBackendLive ==
  /\ SpecBackend
  /\ WF_vars(ProcessReplicaConnected)
  /\ WF_vars(ProcessConnected)
  /\ WF_vars(ConnectStart)
  /\ WF_vars(ConnectFail \/ ConnectMark)
  /\ WF_vars(ConnectReturn)

\* ------------------------------------------------- backend.Config sends
\* gorums and the hotstuffpb conversions are libraries: a multicast on a
\* gorums configuration gives one message per node of the configuration, a
\* call on a node one message for that node, and the receiving server turns
\* the wire message back and calls the handler of its replica.

\* the blocks, votes and certificates sent: every call sends a new one
Values == {Len(sendLog) + 1}

\* hotstuffpb.ProposalToProto, PartialCertToProto, SyncInfoToProto,
\* TimeoutMsgToProto
ToProto(v) == [wire |-> v]

\* hotstuffpb.ProposalFromProto and the like, on the receiving server
FromProto(p) == p.wire

SendCall(op, handle, value) == [op |-> op, handle |-> handle, value |-> value]

WireMsg(call, to, op, value) ==
  [call |-> call, to |-> to, op |-> op, wire |-> ToProto(value), live |-> TRUE]

SendOnly ==
  /\ UNCHANGED <<connected, connectPc, cfgReplicas, nodeOf, md, eventQueue,
                 waitingEvents, evCount, handled, delays, connectedSeen>>
  /\ BackendOnly

\* subConfig.Propose and subConfig.Timeout: cfg.cfg is nil until
\* mgr.NewConfiguration has returned it
multicast(op, value) ==
  /\ Len(sendLog) < MaxCalls
  /\ sendLog' = Append(sendLog, SendCall(op, 0, value))
  /\ inflight' =
       IF connectPc \in {"marked", "done"}
       THEN inflight \cup {WireMsg(Len(sendLog) + 1, to, op, value) : to \in nodeOf}
       ELSE inflight
  /\ UNCHANGED received
  /\ SendOnly

cfgPropose(proposal) == multicast("Propose", proposal)

cfgTimeout(msg) == multicast("Timeout", msg)

\* Replica.Vote and Replica.NewView on the handle of replica id: nothing
\* without a node; otherwise the context of the previous call of the same
\* kind on this handle is cancelled, and gorums may still send or drop it
unicast(op, id, value) ==
  /\ Len(sendLog) < MaxCalls
  /\ id \in cfgReplicas
  /\ sendLog' = Append(sendLog, SendCall(op, id, value))
  /\ inflight' =
       IF id \notin nodeOf THEN inflight
       ELSE {IF m.op = op /\ m.to = id THEN [m EXCEPT !.live = FALSE] ELSE m :
               m \in inflight}
            \cup {WireMsg(Len(sendLog) + 1, id, op, value)}
  /\ UNCHANGED received
  /\ SendOnly

replicaVote(id, cert) == unicast("Vote", id, cert)

replicaNewView(id, msg) == unicast("NewView", id, msg)

\* the server of replica m.to receives m and calls its handler
Deliver(m) ==
  /\ m \in inflight
  /\ inflight' = inflight \ {m}
  /\ received' = received \cup
       {[call |-> m.call, to |-> m.to, op |-> m.op, value |-> FromProto(m.wire)]}
  /\ UNCHANGED sendLog
  /\ SendOnly

\* gorums drops a message whose context was cancelled before it was sent
DropCancelled(m) ==
  /\ m \in inflight
  /\ ~m.live
  /\ inflight' = inflight \ {m}
  /\ UNCHANGED <<sendLog, received>>
  /\ SendOnly

NextSend ==
  \/ ConnectStart
  \/ ConnectFail
  \/ ConnectMark
  \/ ConnectReturn
  \/ \E v \in Values : cfgPropose(v)
  \/ \E v \in Values : cfgTimeout(v)
  \/ \E id \in BackendIds, v \in Values : replicaVote(id, v)
  \/ \E id \in BackendIds, v \in Values : replicaNewView(id, v)
  \/ \E m \in inflight : Deliver(m)
  \/ \E m \in inflight : DropCancelled(m)

SpecSend == InitBackend /\ [][NextSend]_vars

\* ------------------------------------------------------- qspec.FetchQF
\* The quorum function of the Fetch quorum call. gorums calls it with the
\* request the client sent, whose hash has the length of a consensus.Hash,
\* and with the replies received so far; a server can reply with any block.

\* the replicas that can reply
FetchIds == 1..NumFetchIds

\* the blocks replies can carry
FetchBlocks == 1..NumFetchBlocks

\* the reply maps: some replicas have replied, each with a block
ReplyMaps == UNION {[S -> {ToProto(b) : b \in FetchBlocks}] : S \in SUBSET FetchIds}

FetchResult(ok, block, first) == [ran |-> TRUE, ok |-> ok, block |-> block, first |-> first]

\* a quorum function that takes the first reply
RECURSIVE FetchQFFirstReply(_, _, _, _)
FetchQFFirstReply(h, replies, order, k) ==
  IF k > Len(order) THEN FetchResult(FALSE, 0, IF order = <<>> THEN 0 ELSE order[1])
  ELSE FetchResult(TRUE, replies[order[k]], order[1])

\* qspec.FetchQF, lines 323-329: the range loop visits the replies in the
\* order `order`, from position k on; block.Hash() is the hash BlockFromProto
\* computes for the block it builds
RECURSIVE FetchQF(_, _, _, _)
FetchQF(h, replies, order, k) ==
  IF k > Len(order) THEN FetchResult(FALSE, 0, IF order = <<>> THEN 0 ELSE order[1])
  ELSE IF h = BlockHash(FromProto(replies[order[k]]))
  THEN FetchResult(TRUE, replies[order[k]], order[1])
  ELSE FetchQF(h, replies, order, k + 1)

FetchQFOnly ==
  UNCHANGED <<cacheVars, histVars, concVars, netVars, simVars, backendVars, storeVars, castVars, ctlVars>>

\* gorums calls FetchQF
CallFetchQF(order) ==
  /\ fetchOut' = FetchQF(fetchIn, fetchReplies, order, 1)
  /\ UNCHANGED <<fetchIn, fetchReplies>>
  /\ FetchQFOnly

\* a Fetch for the hash of a block, and the replies to it
InitFetchQF ==
  /\ fetchIn \in {BlockHash(b) : b \in FetchBlocks}
  /\ fetchReplies \in ReplyMaps
  /\ fetchOut = NoFetch
  /\ capacity = 100
  /\ CacheStart
  /\ NetIdle
  /\ SimIdle /\ BackendIdle /\ StoreIdle /\ CastIdle /\ CtlIdle

NextFetchQF == \E order \in Orders(DOMAIN fetchReplies) : CallFetchQF(order)

SpecFetchQF == InitFetchQF /\ [][NextFetchQF]_vars

\* ------------------------------------------- configuration.Propose/Timeout
\* A node broadcasts on its configuration or on a sub-configuration of it,
\* in any of the views of InitDrop.

\* the configurations a node can broadcast on: the whole one, the twinned
\* replica alone, the other replicas
SubConfigs == {NoSubConfig, SubConfig({1}), SubConfig(ReplicaIds \ {1})}

\* the message types configuration.Propose and configuration.Timeout hand
\* to broadcastMessage
BroadcastTypes == {"ProposeMsg", "TimeoutMsg"}

Cast(sender, type, subConfig) == [sender |-> sender, type |-> type, subConfig |-> subConfig]

\* configuration.Propose or configuration.Timeout of node `sender`; one
\* broadcast between two ticks
Broadcast(sender, type, subConfig, rorder) ==
  /\ pendingMessages = <<>>
  /\ pendingMessages' =
       broadcastMessage(pendingMessages, sender, Message(type, <<>>, 0), rorder, 1,
                        subConfig)
  /\ cast' = Cast(sender, type, subConfig)
  /\ UNCHANGED <<views, dropTypes, syncView, effectiveView>>
  /\ UNCHANGED <<cacheVars, histVars, concVars, simVars, backendVars, fetchVars, storeVars,
                 ctlVars>>

NextBroadcast ==
  \/ \E sender \in Nodes, type \in BroadcastTypes, subConfig \in SubConfigs,
        rorder \in Orders(ReplicaIds) : Broadcast(sender, type, subConfig, rorder)
  \/ tick

SpecBroadcast == InitDrop /\ [][NextBroadcast]_vars

\* ---------------------------------------------------- configuration.Fetch
\* The twins Fetch reads the block stores of the other nodes directly.

\* the blocks a node can hold
StoredBlocks == {1}

Fetched(sender, asked, ok, block, from) ==
  [ran |-> TRUE, sender |-> sender, asked |-> asked, ok |-> ok, block |-> block,
   from |-> from]

\* a Fetch that reads every node's store
RECURSIVE FetchEveryNode(_, _, _, _)
FetchEveryNode(sender, block, rorder, k) ==
  IF k > Len(rorder) THEN Fetched(sender, block, FALSE, 0, 0)
  ELSE LET nodes == replicas(rorder[k])
           holding == SelectSeq(nodes, LAMBDA n : BlockHash(block) \in blockStore[n])
       IN IF holding # <<>> THEN Fetched(sender, block, TRUE, block, Head(holding))
          ELSE FetchEveryNode(sender, block, rorder, k + 1)

\* configuration.Fetch of node `sender` for the hash of `block`: the range
\* loop visits the replicas in the order rorder, from position k on, and the
\* nodes of a replica in the order of its slice; LocalGet looks the hash up
\* in the node's store
RECURSIVE Fetch(_, _, _, _)
Fetch(sender, block, rorder, k) ==
  IF k > Len(rorder) THEN Fetched(sender, block, FALSE, 0, 0)
  ELSE LET nodes == replicas(rorder[k])
           holding == SelectSeq(nodes, LAMBDA n : /\ ~shouldDrop(sender, n, "Hash")
                                                  /\ BlockHash(block) \in blockStore[n])
       IN IF holding # <<>> THEN Fetched(sender, block, TRUE, block, Head(holding))
          ELSE Fetch(sender, block, rorder, k + 1)

TwinsFetchOnly ==
  UNCHANGED <<cacheVars, histVars, concVars, simVars, backendVars, fetchVars, castVars, ctlVars>>

\* the block chain of node n stores a block
StoreBlock(n, block) ==
  /\ BlockHash(block) \notin blockStore[n]
  /\ blockStore' = [blockStore EXCEPT ![n] = @ \cup {BlockHash(block)}]
  /\ fetched' = NoFetched
  /\ UNCHANGED netVars
  /\ TwinsFetchOnly

\* a call of configuration.Fetch
CallFetch(sender, block, rorder) ==
  /\ fetched' = Fetch(sender, block, rorder, 1)
  /\ UNCHANGED <<blockStore, netVars>>
  /\ TwinsFetchOnly

\* all nodes are in the same view and none moves; Hash is a dropped type
\* or not
InitTwinsFetch ==
  /\ views \in Plans
  /\ dropTypes \in DropSets \cup {{"ProposeMsg", "VoteMsg"}}
  /\ \E v \in 0..MaxView : syncView = [n \in Nodes |-> v]
  /\ \E e \in 0..(MaxView + 1) : effectiveView = [n \in Nodes |-> e]
  /\ pendingMessages = <<>>
  /\ blockStore = [n \in Nodes |-> {}]
  /\ fetched = NoFetched
  /\ capacity = 100
  /\ CacheStart
  /\ SimIdle /\ BackendIdle /\ FetchIdle /\ CastIdle /\ CtlIdle

NextTwinsFetch ==
  \/ \E n \in Nodes, block \in StoredBlocks : StoreBlock(n, block)
  \/ \E sender \in Nodes, block \in StoredBlocks, rorder \in Orders(ReplicaIds) :
       CallFetch(sender, block, rorder)

SpecTwinsFetch == InitTwinsFetch /\ [][NextTwinsFetch]_vars

\* ------------------------------------------- Experiment.stopReplicas
\* A []byte is nil or a slice with its bytes; bytes.Equal compares the bytes,
\* so nil equals the slice of length 0.

NilBytes == [isNil |-> TRUE, bytes |-> <<>>]

Bytes(b) == [isNil |-> FALSE, bytes |-> b]

\* the state hashes a replica can report
HashValues == {NilBytes, Bytes(<<>>)} \cup {Bytes(<<k>>) : k \in 1..NumHashes}

\* the replicas that report a hash
StopIds == 1..NumStopIds

\* bytes.Equal
Equal(a, b) == a.bytes = b.bytes

StopResult(err, order) == [ran |-> TRUE, err |-> err, order |-> order]

\* Experiment.stopReplicas, lines 161-170: the range loop visits the hashes
\* in the order `order`, from position k on; err is the error of the call
RECURSIVE stopLoop(_, _, _, _, _)
stopLoop(hashes, order, k, cmp, err) ==
  IF k > Len(order) THEN err
  ELSE LET hash == hashes[order[k]]
           cmp1 == IF cmp.isNil THEN hash ELSE cmp
       IN IF ~Equal(cmp1, hash) THEN TRUE
          ELSE stopLoop(hashes, order, k + 1, cmp1, err)

StopOnly == UNCHANGED <<numReplicas, numHosts, nodesToReplicas, nextID, requested, skipped>>

\* a call of Experiment.stopReplicas
stopReplicas(order) ==
  /\ stopOut' = StopResult(stopLoop(stopHashes, order, 1, NilBytes, stopErr), order)
  /\ UNCHANGED <<stopHashes, stopErr>>
  /\ StopOnly
  /\ UNCHANGED <<cacheVars, histVars, concVars, netVars, simVars, backendVars,
                 fetchVars, storeVars, castVars>>

\* the result of e.config.StopReplica
InitStop ==
  /\ stopHashes \in [StopIds -> HashValues]
  /\ stopErr \in BOOLEAN
  /\ stopOut = NoStop
  /\ numReplicas = 0
  /\ numHosts = 0
  /\ nodesToReplicas = <<>>
  /\ nextID = 0
  /\ requested = {}
  /\ skipped = {}
  /\ capacity = 100
  /\ CacheStart
  /\ NetIdle
  /\ SimIdle /\ BackendIdle /\ FetchIdle /\ StoreIdle /\ CastIdle

NextStop == \E order \in Orders(StopIds) : stopReplicas(order)

SpecStop == InitStop /\ [][NextStop]_vars

\* ----------------------------------------- Experiment.createReplicas
\* gorums calls the per-node function of CreateReplica once for every node
\* of the configuration, one call after the other.

Hosts == 1..numHosts

\* createReplicas, lines 106-137: the loop of the per-node function for
\* host u, from iteration i on; st holds nextID, nodesToReplicas[u] and
\* whether the function returned nil
RECURSIVE perNode(_, _)
perNode(st, i) ==
  IF i >= numReplicas \div numHosts THEN st
  ELSE IF st.nextID > numReplicas THEN [st EXCEPT !.nil = TRUE]
  ELSE perNode([st EXCEPT !.nextID = @ + 1, !.ids = Append(@, st.nextID)], i + 1)

\* the per-node function runs for host u
CreateForNode(u) ==
  /\ u \in Hosts \ requested
  /\ LET st == perNode([nextID |-> nextID, ids |-> nodesToReplicas[u], nil |-> FALSE], 0)
     IN /\ nextID' = st.nextID
        /\ nodesToReplicas' = [nodesToReplicas EXCEPT ![u] = st.ids]
        /\ skipped' = IF st.nil THEN skipped \cup {u} ELSE skipped
  /\ requested' = requested \cup {u}
  /\ UNCHANGED <<stopHashes, stopErr, stopOut, numReplicas, numHosts>>
  /\ UNCHANGED <<cacheVars, histVars, concVars, netVars, simVars, backendVars,
                 fetchVars, storeVars, castVars>>

\* createReplicas, lines 92-99, for an experiment and a set of hosts
InitCreate ==
  /\ numReplicas \in 1..MaxReplicas
  /\ numHosts \in 1..MaxHosts
  /\ nodesToReplicas = [u \in 1..numHosts |-> <<>>]
  /\ nextID = 1
  /\ requested = {}
  /\ skipped = {}
  /\ stopHashes = <<>>
  /\ stopErr = FALSE
  /\ stopOut = NoStop
  /\ capacity = 100
  /\ CacheStart
  /\ NetIdle
  /\ SimIdle /\ BackendIdle /\ FetchIdle /\ StoreIdle /\ CastIdle

NextCreate == \E u \in 1..MaxHosts : CreateForNode(u)

SpecCreate == InitCreate /\ [][NextCreate]_vars

\* ------------------------------------------------------------ claims
\* C1: whenever cache.Verify(s, m) returns, it returns what the primitive's
\* Verify(s, m) returns, in every cache state Sign, Verify, BatchVerify and
\* Combine can reach.
C1_VerifyAgreesWithPrimitive ==
  last.op = "Verify" /\ last.returned => last.result = last.implAns

\* a Verify answered from the cache while the cache also holds a batch key
C1_Witness ==
  /\ last.op = "Verify" /\ last.returned /\ last.hit /\ ~last.delegated
  /\ \E k \in entries : k.hash = ZeroHash

\* C2 (as claimed): BatchVerify(sig, batch) returns true only if the primitive
\* accepts (sig, batch): a cached success for (sig, A) never makes
\* BatchVerify(sig, B) true for a batch B the primitive rejects.
C2_BatchHitOnlyForVerifiedBatch ==
  last.op = "BatchVerify" /\ last.returned /\ last.result => last.implAns

\* C3: once Sign(m) has returned sig and the key it inserted has not been
\* evicted, Verify(sig, m) returns true without calling the primitive.
C3_SignThenVerifyHits ==
  [][(last'.op = "Verify" /\ \E r \in signedLive : r.arg = last'.arg)
       => last'.returned /\ last'.result /\ ~last'.delegated]_vars

\* a Verify hit on a key Sign inserted, after a later call of another kind
C3_Witness ==
  /\ last.op = "Verify" /\ last.hit /\ ~last.delegated /\ last.result
  /\ \E r \in signedLive : r.arg = last.arg
  /\ Len(accessOrder) > 1

C5_SizeBound == Cardinality(entries) <= capacity

\* a full cache of the largest capacity, just after a call inserted a key
C5_Witness ==
  /\ capacity = MaxCap /\ Cardinality(entries) = capacity
  /\ Ins(last) /\ last.returned

\* C6: a call that hits or inserts key k leaves k at the front of the access
\* order and the other keys in their order; a key already present changes
\* nothing else; a new key in a full cache removes exactly the key at the back
\* (the least recently used one); a new key in a cache with room removes none.
C6_LruStep ==
  [][LET l == last'
         k == l.key
         rest == SelectSeq(accessOrder', LAMBDA x : x # k)
     IN (l.returned /\ (l.hit \/ Ins(l))) =>
          /\ accessOrder' # <<>>
          /\ Head(accessOrder') = k
          /\ Len(accessOrder') = Len(rest) + 1
          /\ IF k \in entries
             THEN /\ entries' = entries
                  /\ rest = SelectSeq(accessOrder, LAMBDA x : x # k)
             ELSE IF Cardinality(entries) = capacity
             THEN /\ entries' = (entries \ {Back(accessOrder)}) \cup {k}
                  /\ Cardinality(entries \ entries') = 1
                  /\ rest = RemoveBack(accessOrder)
             ELSE /\ entries' = entries \cup {k}
                  /\ rest = accessOrder]_vars

\* a hit on the key at the back of a full cache of two or more keys
C6_Witness ==
  /\ last.op = "Verify" /\ last.hit /\ last.returned
  /\ capacity >= 2 /\ Cardinality(entries) = capacity
  /\ Head(accessOrder) = last.key

\* C7: a Verify or BatchVerify that misses and whose primitive call returns
\* false returns false and changes neither the keys nor their order, and a
\* Verify or BatchVerify adds a key only when the primitive returned true.
C7_FailedVerifyLeavesCache ==
  [][LET l == last'
     IN l.op \in {"Verify", "BatchVerify"} =>
          /\ (~l.hit /\ ~l.implAns) =>
               ~l.result /\ entries' = entries /\ accessOrder' = accessOrder
          /\ ~(entries' \subseteq entries) => l.delegated /\ l.implAns]_vars

\* a rejected Verify on a cache that holds keys
C7_Witness ==
  /\ last.op = "Verify" /\ ~last.hit /\ last.delegated /\ ~last.result
  /\ last.returned /\ entries # {}

\* C8: a goroutine never holds the cache mutex while it runs the primitive's
\* Sign, Verify, BatchVerify or Combine (or waits to lock after it): the mutex
\* is held only by a goroutine inside cache.check or cache.insert.
C8_NoLockAroundPrimitive ==
  /\ \A t \in Threads : pc[t] \in {"impl", "idle", "panic"} => mut # t
  /\ mut # 0 => pc[mut] \in {"checking", "inserting"}

\* one goroutine is in the primitive's Verify while another holds the mutex
C8_Witness ==
  \E t, u \in Threads :
    /\ t # u /\ pc[t] = "impl" /\ task[t].op = "Verify"
    /\ mut = u /\ pc[u] = "inserting"

\* C9 (as claimed): for an accepted pair the primitive's Verify is called at
\* most once while the pair's key is not evicted, whatever the interleaving.
C9_AtMostOnce == verifyCalls <= 1

\* C9 (amended): a Verify call runs the primitive only if the pair's key was
\* absent when the call looked it up; calls that look the key up after it was
\* inserted, and before it is evicted, never run the primitive.
C9_PrimitiveOnlyAfterMiss ==
  [][\A t \in Threads :
       (pc[t] = "checking" /\ pc'[t] = "impl" /\ task[t].op = "Verify")
         => task[t].key \notin entries]_vars

\* the tracked pair was verified once, its key is cached, and a later Verify
\* of the pair is looking it up
C9_Witness ==
  /\ verifyCalls = 1 /\ TrackedKey \in entries
  /\ \E t \in Threads :
       pc[t] = "checking" /\ task[t].op = "Verify" /\ task[t].key = TrackedKey

\* C10: when the sender's view-plan index is in range, shouldDrop lets a
\* message through if some partition of that entry contains both NetworkIDs,
\* whatever its type, and otherwise drops it iff its type is in the drop set.
C10_InRangeDropRule ==
  \A sender \in Nodes, receiver \in Nodes, type \in MsgTypes :
    LET i == (IF effectiveView[sender] > syncView[sender]
              THEN effectiveView[sender] ELSE syncView[sender]) - 1
    IN (0 <= i /\ i < Len(views)) =>
         LET together == \E k \in 1..Len(views[i + 1].Partitions) :
                           {sender, receiver} \subseteq views[i + 1].Partitions[k]
         IN /\ together => ~shouldDrop(sender, receiver, type)
            /\ ~together => (shouldDrop(sender, receiver, type) <=> type \in dropTypes)

\* a message of a droppable type is queued for node 2, which shares only the
\* second partition of view 1 with a sender, while node 1's twin gets nothing
C10_Witness ==
  /\ views[1].Partitions = <<{1}, {1, 2}>>
  /\ syncView[1] = 1
  /\ pendingMessages = <<pendingMessage("VoteMsg", 2)>>
  /\ ~shouldDrop(1, 2, "VoteMsg") /\ shouldDrop(1, NumNodes, "VoteMsg")

C12_EffectiveViewFilters ==
  /\ [](\A sender \in Nodes, receiver \in Nodes, type \in MsgTypes :
         (effectiveView[sender] = syncView[sender] + 1 /\ syncView[sender] + 1 <= Len(views)) =>
           LET ps == views[syncView[sender] + 1].Partitions
               together == \E k \in 1..Len(ps) : {sender, receiver} \subseteq ps[k]
           IN shouldDrop(sender, receiver, type) <=> (~together /\ type \in dropTypes))
  /\ [][\A n \in Nodes :
          effectiveView'[n] # effectiveView[n] =>
            effectiveView'[n] = syncView[n] + 1 /\ syncView'[n] = syncView[n]]_vars
  /\ [][(syncView' # syncView \/ effectiveView' # effectiveView) =>
          pendingMessages' = pendingMessages]_vars

\* node n has timed out in its view v, the one message queued got through
\* under the partitions of view v + 1, and the partitions of view v would
\* have dropped it
C12_Witness ==
  \E n \in Nodes, r \in Nodes, t \in MsgTypes :
    /\ effectiveView[n] = syncView[n] + 1
    /\ syncView[n] + 1 <= Len(views)
    /\ pendingMessages = <<pendingMessage(t, r)>>
    /\ ~shouldDrop(n, r, t)
    /\ t \in dropTypes
    /\ LET ps == views[syncView[n]].Partitions
       IN \A k \in 1..Len(ps) : ~({n, r} \subseteq ps[k])
    /\ \A m \in Nodes \ {n} : shouldDrop(m, r, t)

\* C17: in the network ExecuteScenario builds, with the index in range and
\* no partition shared by sender and receiver, proposals, votes and fetch
\* requests are dropped while Timeout and NewView messages are not.
C17_TimeoutAndNewViewPass ==
  \A sender \in Nodes, receiver \in Nodes :
    LET i == PlanIndex(sender)
    IN (0 <= i /\ i < Len(views)
        /\ \A k \in 1..Len(views[i + 1].Partitions) :
             ~({sender, receiver} \subseteq views[i + 1].Partitions[k])) =>
         /\ \A type \in {"ProposeMsg", "VoteMsg", "Hash"} : shouldDrop(sender, receiver, type)
         /\ \A type \in {"NewViewMsg", "TimeoutMsg"} : ~shouldDrop(sender, receiver, type)

\* C18: a node never waits indefinitely: from startup, if its view does not
\* change, its timer expires after finitely many ticks and a TimeoutEvent is
\* added to its event loop.
C18_TimerExpiresFromStartup ==
  \A n \in TimerNodes : <>(syncView[n] # 1 \/ fired[n])

\* C19: counted from the last observed ViewChangeEvent, a tick event emits a
\* TimeoutEvent exactly when it is the timeout-th, or a multiple of the
\* timeout-th, and the event carries the synchronizer's current view; every
\* other tick event emits none.
C19_TimeoutEveryTimeoutTicks ==
  [][\A n \in TimerNodes :
       (tickNo' = tickNo + 1 /\ observed[n]) =>
         lastEmit'[n] = IF (sinceChange[n] + 1) % timeout = 0
                        THEN TimeoutEvent(syncView[n])
                        ELSE NoEvent]_vars

\* the second TimeoutEvent after a view change has just been emitted
C19_Witness ==
  \E n \in TimerNodes :
    /\ observed[n]
    /\ sinceChange[n] = 2 * timeout
    /\ lastEmit[n] = TimeoutEvent(syncView[n])

\* C15: checkCommits answers safe exactly when, at every index, the
\* replicas without twins that have executed more than that many blocks have
\* the same block hash there; an unsafe answer carries the smallest index
\* where two of them differ, a safe answer the length of their longest
\* executed sequence; the nodes of twinned replicas play no part.
C15_CheckCommits ==
  commitResult.ran =>
    LET correct == {n \in CommitNodes : \A m \in CommitNodes \ {n} :
                        \A id \in CommitReplicaIds :
                          ~(\E j, k \in 1..Len(commitReplicas(id)) :
                              commitReplicas(id)[j] = n /\ commitReplicas(id)[k] = m)}
        differ(i) == \E a, b \in correct :
                       /\ Len(executedBlocks[a]) > i
                       /\ Len(executedBlocks[b]) > i
                       /\ executedBlocks[a][i + 1] # executedBlocks[b][i + 1]
        bad == {i \in 0..MaxExec : differ(i)}
        longest == IF correct = {} THEN 0
                   ELSE CHOOSE l \in 0..MaxExec :
                          /\ \E n \in correct : Len(executedBlocks[n]) = l
                          /\ \A n \in correct : Len(executedBlocks[n]) <= l
    IN /\ commitResult.safe <=> bad = {}
       /\ ~commitResult.safe =>
            commitResult.commits \in bad /\ \A i \in bad : commitResult.commits <= i
       /\ commitResult.safe => commitResult.commits = longest

\* checkCommits has answered unsafe at index 1: two replicas without twins
\* agree on their first block and differ on their second
C15_Witness ==
  /\ commitResult = Result(FALSE, 1)
  /\ \E a, b \in 2..(NumCorrect + 1) :
       /\ Len(executedBlocks[a]) = 2 /\ Len(executedBlocks[b]) = 2
       /\ executedBlocks[a][1] = executedBlocks[b][1]
       /\ executedBlocks[a][2] # executedBlocks[b][2]

\* C20: a leader the carousel returns without falling back to round-robin is
\* a participant of the commit head's quorum certificate and proposed none
\* of the blocks collected into lastAuthors, the at most f blocks met on the
\* way from the commit head toward genesis.
C20_CarouselAvoidsLastAuthors ==
  leaderOut.kind = "carousel" =>
    LET f == (ConfigLen - 1) \div 3
        n == Len(proposers)
        visited == {k \in 1..n : n - k < f /\ n - k <= leaderOut.avail}
    IN /\ leaderOut.leader \in headParticipants
       /\ \A k \in visited : leaderOut.leader # proposers[k]

\* the carousel has elected the proposer of an older block: the walk visited
\* the two newest blocks, of two other proposers, and stopped
C20_Witness ==
  /\ leaderOut.kind = "carousel"
  /\ leaderOut.avail = 1
  /\ Len(proposers) = 3
  /\ proposers[3] # proposers[2]
  /\ leaderOut.leader = proposers[1]

C22_LeaderIsFunctionOfViewAndHead ==
  [][(/\ leaderOut.kind # "none"
      /\ leaderOut'.kind # "none"
      /\ leaderOut'.round = leaderOut.round
      /\ leaderOut'.avail = leaderOut.avail
      /\ UNCHANGED <<proposers, headParticipants>>)
     => leaderOut'.leader = leaderOut.leader]_vars

\* C23: a replicaConnected event the event loop takes before Connect has
\* set cfg.connected is not handed to cfg.replicaConnected then and no
\* metadata is updated; an event that was delayed reaches
\* cfg.replicaConnected only after a connected event has been processed.
C23_DelayedUntilConnected ==
  /\ ~connected => /\ handled = <<>>
                   /\ \A id \in DOMAIN md : md[id] = 0
  /\ \A i \in 1..Len(handled) :
       (\E j \in 1..Len(delays) : delays[j] = handled[i]) => connectedSeen

\* a delayed event has updated its replica's metadata after the connected
\* event
C23_Witness ==
  /\ connectedSeen
  /\ \E i \in 1..Len(handled) :
       /\ \E j \in 1..Len(delays) : delays[j] = handled[i]
       /\ \E id \in DOMAIN md : md[id] = handled[i]

\* C24: when Connect returns without error, every delayed replicaConnected
\* event is eventually handed to cfg.replicaConnected; no event is handed
\* over twice and none is delayed twice.
C24_DelayedEventuallyAppliedOnce ==
  /\ [](/\ \A i, j \in 1..Len(handled) : handled[i] = handled[j] => i = j
        /\ \A i, j \in 1..Len(delays) : delays[i] = delays[j] => i = j)
  /\ \A seq \in 1..MaxEvents :
       <>(connectPc = "done") =>
         []((\E j \in 1..Len(delays) : delays[j] = seq)
              => <>(\E i \in 1..Len(handled) : handled[i] = seq))

\* two events were delayed and both were handled once Connect was done
C24_Witness ==
  /\ connectPc = "done"
  /\ Len(delays) >= 2
  /\ \A j \in 1..Len(delays) : \E i \in 1..Len(handled) : handled[i] = delays[j]

C26_FetchQFReturnsRequestedBlock ==
  fetchOut.ran =>
    /\ fetchOut.ok <=>
         \E id \in DOMAIN fetchReplies : BlockHash(fetchReplies[id].wire) = fetchIn
    /\ fetchOut.ok =>
         /\ BlockHash(fetchOut.block.wire) = fetchIn
         /\ \E id \in DOMAIN fetchReplies : fetchReplies[id] = fetchOut.block

\* the reply visited first carried another block and a later one the
\* requested block
C26_Witness ==
  /\ fetchOut.ran /\ fetchOut.ok
  /\ BlockHash(fetchReplies[fetchOut.first].wire) # fetchIn

\* C27: a broadcast of a node queues no message for a node with the
\* sender's replica ID; for every node of another replica ID (of the
\* sub-configuration, when there is one) it queues the message once unless
\* the link from the sender to that node is dropped, so each twin of a
\* twinned replica gets it.
C27_BroadcastReachesOtherReplicas ==
  [][(cast' # cast \/ (pendingMessages = <<>> /\ pendingMessages' # <<>>)) =>
       /\ \A k \in 1..Len(pendingMessages') :
            pendingMessages'[k].message = Message(cast'.type, <<>>, 0)
       /\ \A n \in Nodes :
            Cardinality({k \in 1..Len(pendingMessages') :
                           pendingMessages'[k].receiver = n})
              = IF /\ ReplicaOf(n) # ReplicaOf(cast'.sender)
                   /\ (cast'.subConfig.nil \/ ReplicaOf(n) \in cast'.subConfig.ids)
                   /\ ~shouldDrop(cast'.sender, n, cast'.type)
                THEN 1 ELSE 0]_vars

\* a broadcast of a node of another replica has queued its message for both
\* twins of replica 1
C27_Witness ==
  /\ Len(pendingMessages) = 2
  /\ {pendingMessages[k].receiver : k \in 1..2} = {1, NumNodes}
  /\ pendingMessages[1].message = pendingMessages[2].message
  /\ cast.sender = 2

\* C28: the twins Fetch returns a block exactly when some node to which a
\* Hash message of the requesting node would not be dropped holds the hash
\* in its local store, and the block is read from such a node: never from a
\* node that shares no partition with the requester in the requester's view
\* while Hash is a dropped type; the call changes no store and no queue.
C28_FetchReadsReachableStores ==
  /\ [](fetched.ran =>
         /\ fetched.ok <=>
              \E n \in Nodes : /\ ~shouldDrop(fetched.sender, n, "Hash")
                               /\ BlockHash(fetched.asked) \in blockStore[n]
         /\ fetched.ok =>
              /\ fetched.block = fetched.asked
              /\ BlockHash(fetched.asked) \in blockStore[fetched.from]
              /\ ~shouldDrop(fetched.sender, fetched.from, "Hash")
              /\ LET i == PlanIndex(fetched.sender)
                 IN (/\ i >= 0 /\ i < Len(views)
                     /\ "Hash" \in dropTypes)
                      => \E k \in 1..Len(views[i + 1].Partitions) :
                           {fetched.sender, fetched.from} \subseteq views[i + 1].Partitions[k])
  /\ [][fetched'.ran => UNCHANGED <<blockStore, pendingMessages>>]_vars

\* a Fetch has failed although a node across the partition holds the block,
\* with Hash a dropped type
C28_Witness ==
  /\ fetched.ran /\ ~fetched.ok
  /\ "Hash" \in dropTypes
  /\ \E n \in Nodes : BlockHash(fetched.asked) \in blockStore[n]

\* C29: stopReplicas returns an error whenever two replicas reported
\* different hashes, whatever the hashes (empty ones included) and the order
\* in which they are visited, and returns nil only when all hashes are equal
\* and the StopReplica call succeeded.
C29_HashMismatchIsAnError ==
  stopOut.ran =>
    LET differ == \E a, b \in DOMAIN stopHashes : stopHashes[a].bytes # stopHashes[b].bytes
    IN /\ differ => stopOut.err
       /\ ~stopOut.err => ~differ /\ ~stopErr

\* C30: when createReplicas has called the per-node function for every host,
\* NumReplicas replicas are created, with the IDs 1..NumReplicas, each on
\* exactly one host.
C30_IdsOneToNumReplicas ==
  (numHosts > 0 /\ requested = Hosts) =>
    /\ \A id \in 1..numReplicas :
         Cardinality({u \in Hosts : \E k \in 1..Len(nodesToReplicas[u]) :
                                      nodesToReplicas[u][k] = id}) = 1
    /\ \A u \in Hosts : \A k \in 1..Len(nodesToReplicas[u]) :
         nodesToReplicas[u][k] \in 1..numReplicas
    /\ \A u \in Hosts : \A j, k \in 1..Len(nodesToReplicas[u]) :
         nodesToReplicas[u][j] = nodesToReplicas[u][k] => j = k

\* C31: in a configuration of any size N >= 1, when GetLeader reaches the
\* carousel selection with a commit head whose certificate has at least
\* N - f participants, f = (N - 1) div 3, the candidate list is not empty:
\* the call does not panic on rnd % len(candidates) and returns a participant
\* that is not one of the last authors
C31_CandidatesNeverEmpty ==
  LET f == (configLen - 1) \div 3
  IN (/\ leaderOut.kind \in {"carousel", "panic"}
      /\ Cardinality(headParticipants) >= configLen - f)
       => /\ leaderOut.kind = "carousel"
          /\ leaderOut.leader \in headParticipants
          /\ Cardinality(headParticipants) - f > 0

\* the selection is made with f last authors, all of them participants of a
\* certificate of exactly N - f replicas
C31_Witness ==
  LET f == (configLen - 1) \div 3
  IN /\ leaderOut.kind = "carousel"
     /\ f >= 1
     /\ Cardinality(headParticipants) = configLen - f
     /\ Len(proposers) >= f
     /\ Cardinality({proposers[Len(proposers) - i] : i \in 0..(f - 1)}) = f
     /\ {proposers[Len(proposers) - i] : i \in 0..(f - 1)} \subseteq headParticipants
     /\ leaderOut.avail >= f

\* C33: for every capacity NewCache accepts, 0 included, insert completes
\* normally: no call panics in evict, and every call that called insert
\* has returned
C33_InsertCompletesNormally ==
  /\ ~panicked
  /\ Ins(last) => last.returned

\* C32: under every interleaving of concurrent Sign, Verify and BatchVerify
\* calls, two calls that miss on the same key and both insert it included,
\* the key map and the access-order list hold the same set of keys, no key
\* is twice in the list, and the map holds at most `capacity` keys
C32_MapAndListAgree ==
  /\ {accessOrder[i] : i \in 1..Len(accessOrder)} = entries
  /\ \A i, j \in 1..Len(accessOrder) : accessOrder[i] = accessOrder[j] => i = j
  /\ Len(accessOrder) <= capacity

\* two Verify calls of the tracked pair both missed, both were accepted by
\* the primitive and both have returned from cache.insert; the key was not
\* evicted in between and the cache is full
C32_Witness ==
  /\ verifyCalls = 2 /\ TrackedKey \in entries
  /\ \A t \in Threads : pc[t] = "idle"
  /\ Len(accessOrder) = capacity

\* C13: a tick hands every queued message to its receiver's event loop
\* once, in the order of the queue, and empties the queue; a node gets its
\* tick event only after that, one per tick, and when the tick is over every
\* event loop is empty; a message sent since the last delivery is in no
\* event loop: it waits for the next tick.
C13_TickDeliversThenDrains ==
  /\ [][(phase = "idle" /\ phase' = "drain") =>
          /\ pendingMessages' = <<>>
          /\ \A n \in Nodes :
               LET mine == SelectSeq(pendingMessages, LAMBDA pm : pm.receiver = n)
               IN eventLoop'[n] = eventLoop[n] \o [k \in 1..Len(mine) |-> mine[k].message]]_vars
  /\ [][\A n \in Nodes :
          tickEvents'[n] > tickEvents[n] =>
            phase = "drain" /\ tickEvents[n] = 0 /\ tickEvents'[n] = 1]_vars
  /\ [][(phase = "drain" /\ phase' = "idle") =>
          \A n \in Nodes : tickEvents[n] = 1 /\ eventLoop'[n] = <<>>]_vars
  /\ [](\A n \in Nodes : \A k \in 1..Len(eventLoop[n]) :
          eventLoop[n][k].seq \notin sentThisTick)

\* a message sent while an event loop was drained is now, one tick later,
\* in its receiver's event loop, and another one sent in this tick is queued
C13_Witness ==
  /\ phase = "drain"
  /\ \E n \in Nodes : \E k \in 1..Len(eventLoop[n]) : eventLoop[n][k].seq \in sentInDrain
  /\ \E k \in 1..Len(pendingMessages) : pendingMessages[k].message.seq \in sentThisTick

\* C14: a run is reproducible: the messages queued by the first proposals
\* and the commands assigned to them do not depend on the order in which
\* Network.run visits the nodes and broadcastMessage the replicas.
C14_KickoffOrderIndependent ==
  phase = "start" =>
    \A o1, o2 \in Orders(Nodes), r1, r2 \in Orders(ReplicaIds) :
      LET a == kickoff(StartState, o1, r1, 1)
          b == kickoff(StartState, o2, r2, 1)
          seen(st) == [k \in 1..Len(st.pending) |->
                         <<st.pending[k].receiver, st.pending[k].message.type,
                           st.pending[k].message.cmd>>]
      IN a.cmds = b.cmds /\ seen(a) = seen(b)

====
